---- MODULE Spec2Model ----
(***************************************************************************)
(* Verification model of the tentOS live state engine and automation core  *)
(* (src/tentos/app/backend/automation.py, state_manager.py, ha_client.py). *)
(*                                                                         *)
(* Numbers: sensor readings, thresholds and hysteresis margins are kept as *)
(* integers in tenths of a unit (28.0 is 280); times are whole seconds.    *)
(***************************************************************************)
EXTENDS Integers, Sequences, FiniteSets, TLC

None == "none"          \* Python's None, where the other values are strings

\* An optional number or record is a sequence of length 0 (None) or 1.
Nothing == <<>>
Some(x) == <<x>>
Get(o) == o[1]

(***************************************************************************)
(* Bounds of the model and program constants.                              *)
(***************************************************************************)
MaxTime == 150               \* the clock stops advancing here (seconds)
TimeStep == 30               \* the clock advances in steps of this many seconds

DefaultCooldown == 30        \* AutomationRule.cooldown
DefaultMinOn == 60           \* AutomationRule.min_on_duration
DefaultMinOff == 60          \* AutomationRule.min_off_duration
SchedulePeriod == 60         \* asyncio.sleep(60) of _schedule_loop

TriggerValue == 270          \* the rule's trigger_value (27.0)
TriggerValueMax == 280       \* the rule's trigger_value_max (28.0)
RuleHysteresis == 10         \* the rule's hysteresis (1.0)

\* The readings fed to the evaluator: below, on and above every boundary
\* of the rule (T - H = 260, T = 270, T + H = max = 280).
Readings == {255, 260, 270, 280, 295}

TentIds == {"t1", "t2"}
SensorTypes == {"temperature", "humidity"}
TriggerTypes == {"sensor_above", "sensor_below", "sensor_range", "schedule"}
ActionTypes == {"turn_on", "turn_off", "set_speed"}
RuleIds == {"r1"}

VARIABLES
  rules,         \* AutomationEngine.rules: rule id -> AutomationRule
  rule_states,   \* AutomationEngine.rule_states: rule id -> RuleState
  actuators,     \* tent_config.actuators: actuator slot -> entity id (or None)
  now,           \* the wall clock, in seconds
  sched_wake,    \* when _schedule_loop wakes from its sleep
  reading,       \* the input of the handler that ran last
  ha_calls       \* the service calls the handler that ran last issued, in order

VARIABLES
  tents,         \* StateManager.tents: tent id -> TentState
  upd            \* the update_sensor call that ran last, and whether it raised

autoVars == <<rules, rule_states, actuators, now, sched_wake, reading, ha_calls>>

tentVars == <<tents, upd>>

\* The state coordinator (state_manager.py, ha_client.py, main.py).
VARIABLES
  ws_clients,   \* StateManager.ws_clients: the list of subscribers
  closed,       \* the websocket connections that have ended
  tasks,        \* the position of the receive loop and of the loading task
  running,      \* the task that holds the event loop, None at an await
  events_left,  \* the state-change events still to arrive
  reloads,      \* the number of reload_config calls so far
  applied       \* the number of update_sensor calls so far

coordVars == <<ws_clients, closed, tasks, running, events_left, reloads, applied>>

\* The coordinator's life cycle and its periodic loops (state_manager.py,
\* main.py).
VARIABLES
  sm_running,   \* StateManager._running
  stopped,      \* lifespan's cleanup has run: stop() was called, HAClient.connected is False
  dev_mode,     \* HAClient._dev_mode
  periodic,     \* the position of _alert_check_loop and of _history_record_loop
  alerts,       \* TentState.alerts of each tent, as a set of alerts
  notify        \* config.notifications["enabled"] of each tent

lifeVars == <<sm_running, stopped, dev_mode, periodic, alerts, notify>>

VARIABLES
  calc,         \* the call of a pure function made last: its arguments and result
  ha,           \* HAClient: message_id, _pending_responses, the socket, its tasks
  fresh,        \* the entities a live event has updated since get_states last returned
  rules_file,   \* the rules of AutomationEngine.rules_file, as save_rules wrote them
  entity_to_tent \* StateManager.entity_to_tent: entity id -> <<tent id, category, slot>>

extraVars == <<calc, ha, rules_file, entity_to_tent>>

vars == <<autoVars, tentVars, coordVars, lifeVars, extraVars, fresh>>

(***************************************************************************)
(* automation.py: AutomationRule, RuleState                                *)
(***************************************************************************)
\* class RuleState.__init__
RuleState == [last_triggered |-> Nothing, last_action |-> None,
              last_action_time |-> Nothing, triggered |-> FALSE]

\* The rules the engine may hold: one rule of tent t1 on its temperature
\* sensor (a schedule rule has no trigger sensor), any trigger and action type.
RuleConfigs ==
  { [id |-> "r1", enabled |-> en, tent_id |-> "t1",
     trigger_type |-> tt,
     trigger_sensor |-> IF tt = "schedule" THEN None ELSE "temperature",
     trigger_value |-> TriggerValue, trigger_value_max |-> TriggerValueMax,
     trigger_schedule_on |-> 1, trigger_schedule_off |-> 2,
     action_type |-> at, action_actuator |-> "exhaust_fan", action_value |-> 50,
     hysteresis |-> RuleHysteresis,
     min_on_duration |-> DefaultMinOn, min_off_duration |-> DefaultMinOff,
     cooldown |-> DefaultCooldown]
    : en \in BOOLEAN, tt \in TriggerTypes, at \in ActionTypes }

\* now.strftime("%H:%M"): the minute of the day the clock shows
CurrentTime(t) == t \div 60

(***************************************************************************)
(* automation.py: AutomationEngine.evaluate_sensor_rules                   *)
(***************************************************************************)
\* action = "on" if rule.action_type == ActionType.TURN_ON else "off"
EnterAction(rule) == IF rule.action_type = "turn_on" THEN "on" ELSE "off"

\* action = "off" if rule.action_type == ActionType.TURN_ON else "on"
LeaveAction(rule) == IF rule.action_type = "turn_on" THEN "off" ELSE "on"

NoTransition(st) == [should_trigger |-> FALSE, action |-> None, triggered |-> st.triggered]

Enter(rule) == [should_trigger |-> TRUE, action |-> EnterAction(rule), triggered |-> TRUE]

Leave(rule) == [should_trigger |-> TRUE, action |-> LeaveAction(rule), triggered |-> FALSE]

\* A slip: the exit test of sensor_above made inclusive (<=).
DecideAboveInclusive(rule, st, value) ==
  IF value > rule.trigger_value /\ ~st.triggered THEN Enter(rule)
  ELSE IF value <= rule.trigger_value - rule.hysteresis /\ st.triggered THEN Leave(rule)
  ELSE NoTransition(st)

\* TriggerType.SENSOR_ABOVE branch
DecideAbove(rule, st, value) ==
  IF value > rule.trigger_value /\ ~st.triggered THEN Enter(rule)
  ELSE IF value < rule.trigger_value - rule.hysteresis /\ st.triggered THEN Leave(rule)
  ELSE NoTransition(st)

\* TriggerType.SENSOR_BELOW branch
DecideBelow(rule, st, value) ==
  IF value < rule.trigger_value /\ ~st.triggered THEN Enter(rule)
  ELSE IF value > rule.trigger_value + rule.hysteresis /\ st.triggered THEN Leave(rule)
  ELSE NoTransition(st)

\* A slip: a reading above the range while triggered reverses the action.
DecideRangeOneSided(rule, st, value) ==
  IF value < rule.trigger_value /\ ~st.triggered THEN Enter(rule)
  ELSE IF value > rule.trigger_value_max /\ ~st.triggered THEN Enter(rule)
  ELSE IF rule.trigger_value <= value /\ st.triggered THEN Leave(rule)
  ELSE NoTransition(st)

\* TriggerType.SENSOR_RANGE branch
DecideRange(rule, st, value) ==
  IF value < rule.trigger_value /\ ~st.triggered THEN Enter(rule)
  ELSE IF value > rule.trigger_value_max /\ ~st.triggered THEN Enter(rule)
  ELSE IF rule.trigger_value <= value /\ value <= rule.trigger_value_max /\ st.triggered
       THEN Leave(rule)
  ELSE NoTransition(st)

\* the if / elif chain over rule.trigger_type
Decide(rule, st, value) ==
  CASE rule.trigger_type = "sensor_above" -> DecideAbove(rule, st, value)
    [] rule.trigger_type = "sensor_below" -> DecideBelow(rule, st, value)
    [] rule.trigger_type = "sensor_range" -> DecideRange(rule, st, value)
    [] OTHER -> NoTransition(st)

\* A slip: the cooldown test dropped.
CooldownNever(rule, st, t) == FALSE

\* if state.last_action_time: elapsed = ...; if elapsed < rule.cooldown: continue
CooldownActive(rule, st, t) ==
  /\ st.last_action_time # Nothing
  /\ t - Get(st.last_action_time) < rule.cooldown

\* the min duration constraints that precede _execute_action
MinDurationBlocks(rule, st, t) ==
  /\ st.last_action_time # Nothing
  /\ st.last_action # None
  /\ \/ st.last_action = "on" /\ t - Get(st.last_action_time) < rule.min_on_duration
     \/ st.last_action = "off" /\ t - Get(st.last_action_time) < rule.min_off_duration

(***************************************************************************)
(* automation.py: AutomationEngine._execute_action                         *)
(***************************************************************************)
\* entity_id = tent_config.actuators.get(rule.action_actuator) if tent_config
ResolveEntity(rule, tent_config) ==
  IF tent_config = Nothing THEN None
  ELSE IF rule.action_actuator \in DOMAIN Get(tent_config)
       THEN Get(tent_config)[rule.action_actuator]
  ELSE None

\* the service the action maps to
ServiceFor(rule, action) ==
  IF action = "on"
  THEN IF rule.action_type = "set_speed" /\ rule.action_value # 0
       THEN "set_percentage" ELSE "turn_on"
  ELSE "turn_off"

\* A slip: a call that raised is issued once more.
ExecuteActionRetrying(rule, st, action, tent_config, ok, t) ==
  LET entity_id == ResolveEntity(rule, tent_config)
      call == [service |-> ServiceFor(rule, action), entity_id |-> entity_id]
  IN IF entity_id = None
     THEN [state |-> st, calls |-> <<>>]
     ELSE IF ok
     THEN [state |-> [st EXCEPT !.last_action = action,
                                !.last_action_time = Some(t),
                                !.last_triggered = Some(t)],
           calls |-> <<call>>]
     ELSE [state |-> st, calls |-> <<call, call>>]

\* _execute_action: the rule state after it and the calls it issued; ok is
\* whether the Home Assistant call returned (it raised otherwise).
ExecuteAction(rule, st, action, tent_config, ok, t) ==
  LET entity_id == ResolveEntity(rule, tent_config) IN
  IF entity_id = None
  THEN [state |-> st, calls |-> <<>>]
  ELSE [state |-> IF ok
                  THEN [st EXCEPT !.last_action = action,
                                  !.last_action_time = Some(t),
                                  !.last_triggered = Some(t)]
                  ELSE st,
        calls |-> << [service |-> ServiceFor(rule, action), entity_id |-> entity_id] >>]

\* A slip: the test of the rule's trigger sensor dropped.
EvaluateRuleAnySensor(rule, st, tent_id, sensor_type, value, tent_config, ok, t) ==
  IF ~rule.enabled \/ rule.tent_id # tent_id \/ rule.trigger_type = "schedule"
  THEN [state |-> st, calls |-> <<>>]
  ELSE IF CooldownActive(rule, st, t)
  THEN [state |-> st, calls |-> <<>>]
  ELSE LET d == Decide(rule, st, value)
           flipped == [st EXCEPT !.triggered = d.triggered]
       IN IF d.should_trigger /\ d.action # None
          THEN IF MinDurationBlocks(rule, flipped, t)
               THEN [state |-> flipped, calls |-> <<>>]
               ELSE ExecuteAction(rule, flipped, d.action, tent_config, ok, t)
          ELSE [state |-> flipped, calls |-> <<>>]

\* the body of the loop of evaluate_sensor_rules for one rule
EvaluateRule(rule, st, tent_id, sensor_type, value, tent_config, ok, t) ==
  IF ~rule.enabled \/ rule.tent_id # tent_id \/ rule.trigger_sensor # sensor_type
  THEN [state |-> st, calls |-> <<>>]
  ELSE IF CooldownActive(rule, st, t)
  THEN [state |-> st, calls |-> <<>>]
  ELSE LET d == Decide(rule, st, value)
           flipped == [st EXCEPT !.triggered = d.triggered]
       IN IF d.should_trigger /\ d.action # None
          THEN IF MinDurationBlocks(rule, flipped, t)
               THEN [state |-> flipped, calls |-> <<>>]
               ELSE ExecuteAction(rule, flipped, d.action, tent_config, ok, t)
          ELSE [state |-> flipped, calls |-> <<>>]

\* evaluate_sensor_rules(tent_id, sensor_type, value, tent_config)
EvaluateSensorRules(tent_id, sensor_type, value) ==
  \E ok \in BOOLEAN :
    LET res == [r \in RuleIds |->
                  EvaluateRule(rules[r], rule_states[r], tent_id, sensor_type,
                               value, Some(actuators), ok, now)]
    IN /\ rule_states' = [r \in RuleIds |-> res[r].state]
       /\ ha_calls' = res["r1"].calls
       /\ reading' = [op |-> "evaluate", tent_id |-> tent_id,
                      sensor_type |-> sensor_type, value |-> value]
       /\ UNCHANGED <<rules, actuators, now, sched_wake>>
       /\ UNCHANGED <<tentVars, coordVars, lifeVars, extraVars, fresh>>

(***************************************************************************)
(* automation.py: AutomationEngine._schedule_loop, _check_schedules        *)
(***************************************************************************)
\* the body of the loop of _check_schedules for one rule; _execute_action is
\* called without a tent_config
CheckRuleSchedule(rule, st, ok, t) ==
  IF ~rule.enabled \/ rule.trigger_type # "schedule"
  THEN [state |-> st, calls |-> <<>>]
  ELSE IF rule.trigger_schedule_on = CurrentTime(t)
  THEN IF st.last_action # "on"
       THEN ExecuteAction(rule, st, "on", Nothing, ok, t)
       ELSE [state |-> st, calls |-> <<>>]
  ELSE IF rule.trigger_schedule_off = CurrentTime(t)
  THEN IF st.last_action # "off"
       THEN ExecuteAction(rule, st, "off", Nothing, ok, t)
       ELSE [state |-> st, calls |-> <<>>]
  ELSE [state |-> st, calls |-> <<>>]

\* one iteration of _schedule_loop: _check_schedules, then sleep(60)
CheckSchedules ==
  /\ now >= sched_wake
  /\ \E ok \in BOOLEAN :
       LET res == [r \in RuleIds |-> CheckRuleSchedule(rules[r], rule_states[r], ok, now)]
       IN /\ rule_states' = [r \in RuleIds |-> res[r].state]
          /\ ha_calls' = res["r1"].calls
  /\ sched_wake' = now + SchedulePeriod
  /\ reading' = [op |-> "schedule", tent_id |-> None, sensor_type |-> None,
                 value |-> CurrentTime(now)]
  /\ UNCHANGED <<rules, actuators, now>>
  /\ UNCHANGED <<tentVars, coordVars, lifeVars, extraVars, fresh>>

\* time passes
Advance ==
  /\ now + TimeStep <= MaxTime
  /\ now' = now + TimeStep
  /\ UNCHANGED <<rules, rule_states, actuators, sched_wake, reading, ha_calls>>
  /\ UNCHANGED <<tentVars, coordVars, lifeVars, extraVars, fresh>>

(***************************************************************************)
(* state_manager.py: values.  A sensor value is a number, a raw string or  *)
(* None.  Numbers of the tent aggregate are integers in hundredths of a    *)
(* unit (22.0 C is 2200, 55.25 % is 5525, 1.3 kPa is 130).                 *)
(***************************************************************************)
Num(n) == [k |-> "num", v |-> n]
Unavailable == [k |-> "str", v |-> 0]      \* the state string "unavailable"
Null == [k |-> "null", v |-> 0]            \* None
IsNum(x) == x.k = "num"

\* n / d rounded to the nearest integer, ties to the even one (d > 0)
RoundHalfEven(n, d) ==
  LET q == n \div d
      r == n % d
  IN IF 2 * r < d THEN q
     ELSE IF 2 * r > d THEN q + 1
     ELSE IF q % 2 = 0 THEN q ELSE q + 1

\* round(n / d, 1) of a value in hundredths: a multiple of 10
Round1(n, d) == 10 * RoundHalfEven(n, 10 * d)

\* round(fahrenheit_to_celsius(f), 1) with fahrenheit_to_celsius(f) = (f - 32) * 5 / 9
FahrenheitToCelsius1(f) == Round1((f - 3200) * 5, 9)

(***************************************************************************)
(* state_manager.py: calculate_vpd                                         *)
(***************************************************************************)
\* 0.6108 * exp(17.27 * T / (T + 237.3)) in units of 0.0001 kPa, tabulated
\* for the Celsius temperatures T (in tenths) the model's averages take.
Svp(t) ==
  CASE t = 220 -> 26439
    [] t = 235 -> 28955
    [] t = 240 -> 29839
    [] t = 250 -> 31678
    [] t = 255 -> 32634
    [] t = 260 -> 33614
    [] t = 275 -> 36713
    [] t = 280 -> 37799
    [] t = 300 -> 42431
    [] t = 350 -> 56227

\* A slip: a humidity of exactly 0 is let through to the formula.
CalculateVpdZeroLetThrough(temp, humidity) ==
  IF humidity < 0 \/ humidity > 10000 THEN 0
  ELSE LET temp_c == IF temp > 5000 THEN Round1((temp - 3200) * 5, 9) ELSE temp
       IN Round1(Svp(temp_c \div 10) * (10000 - humidity), 1000000)

\* calculate_vpd(temp, humidity), both in hundredths; the result in
\* hundredths of a kPa, rounded to one decimal
CalculateVpd(temp, humidity) ==
  IF humidity <= 0 \/ humidity > 10000 THEN 0
  ELSE LET temp_c == IF temp > 5000 THEN Round1((temp - 3200) * 5, 9) ELSE temp
       IN Round1(Svp(temp_c \div 10) * (10000 - humidity), 1000000)

(***************************************************************************)
(* state_manager.py: calculate_environment_score                           *)
(***************************************************************************)
TempDayMin == 1800           \* targets.get("temp_day_min", 18)
TempDayMax == 2800           \* targets.get("temp_day_max", 28)
HumidityDayMin == 4000       \* targets.get("humidity_day_min", 40)
HumidityDayMax == 7000       \* targets.get("humidity_day_max", 70)

Max(a, b) == IF a >= b THEN a ELSE b

\* how far a value lies outside [lo, hi] (0 inside)
Deviation(x, lo, hi) == IF x < lo THEN lo - x ELSE IF x > hi THEN x - hi ELSE 0

\* The sub-scores, each multiplied by 50 so that they stay integers:
\* 100 - 10 * degrees, 100 - 2 * percent points, and 100 / 75 / 50.
TempScore50(temp) == Max(0, 5000 - 5 * Deviation(temp, TempDayMin, TempDayMax))

HumidityScore50(humidity) ==
  Max(0, 5000 - Deviation(humidity, HumidityDayMin, HumidityDayMax))

VpdScore50(vpd) ==
  IF 80 <= vpd /\ vpd <= 120 THEN 5000
  ELSE IF 40 <= vpd /\ vpd <= 160 THEN 3750
  ELSE 2500

\* A slip: the sum is divided by three, an absent input counting as a
\* sub-score of 0.
CalculateEnvironmentScoreOfThree(temp, humidity, vpd) ==
  LET st == IF IsNum(temp) THEN TempScore50(temp.v) ELSE 0
      sh == IF IsNum(humidity) THEN HumidityScore50(humidity.v) ELSE 0
      sv == IF IsNum(vpd) THEN VpdScore50(vpd.v) ELSE 0
  IN (st + sh + sv) \div 150

\* calculate_environment_score(tent_state, targets) with the default targets:
\* int(sum(scores) / len(scores)), 0 without scores
CalculateEnvironmentScore(temp, humidity, vpd) ==
  LET st == IF IsNum(temp) THEN <<TempScore50(temp.v)>> ELSE <<>>
      sh == IF IsNum(humidity) THEN <<HumidityScore50(humidity.v)>> ELSE <<>>
      sv == IF IsNum(vpd) THEN <<VpdScore50(vpd.v)>> ELSE <<>>
      scores == st \o sh \o sv
      total == IF Len(scores) = 0 THEN 0
               ELSE IF Len(scores) = 1 THEN scores[1]
               ELSE IF Len(scores) = 2 THEN scores[1] + scores[2]
               ELSE scores[1] + scores[2] + scores[3]
  IN IF Len(scores) = 0 THEN 0 ELSE total \div (50 * Len(scores))

(***************************************************************************)
(* state_manager.py: infer_growth_stage                                    *)
(***************************************************************************)
\* The characters of the photoperiod strings the model uses.
TimeChars(time) ==
  CASE time = "00:00" -> <<"0", "0", ":", "0", "0">>
    [] time = "06:00" -> <<"0", "6", ":", "0", "0">>
    [] time = "06:01" -> <<"0", "6", ":", "0", "1">>
    [] time = "6:00" -> <<"6", ":", "0", "0">>
    [] time = "14:00" -> <<"1", "4", ":", "0", "0">>
    [] time = "18:00" -> <<"1", "8", ":", "0", "0">>
    [] time = "18:30" -> <<"1", "8", ":", "3", "0">>
    [] time = "18:31" -> <<"1", "8", ":", "3", "1">>
    [] time = "20:00" -> <<"2", "0", ":", "0", "0">>
    [] time = "22:00" -> <<"2", "2", ":", "0", "0">>
    [] time = "0600" -> <<"0", "6", "0", "0">>
    [] time = "6pm" -> <<"6", "p", "m">>
    [] time = "" -> <<>>

Digits == {"0", "1", "2", "3", "4", "5", "6", "7", "8", "9"}

DigitValue(c) ==
  CASE c = "0" -> 0 [] c = "1" -> 1 [] c = "2" -> 2 [] c = "3" -> 3
    [] c = "4" -> 4 [] c = "5" -> 5 [] c = "6" -> 6 [] c = "7" -> 7
    [] c = "8" -> 8 [] c = "9" -> 9

\* str.split(":"): the parts between the colons
RECURSIVE SplitColon(_, _)
SplitColon(chars, part) ==
  IF chars = <<>> THEN <<part>>
  ELSE IF Head(chars) = ":" THEN <<part>> \o SplitColon(Tail(chars), <<>>)
  ELSE SplitColon(Tail(chars), Append(part, Head(chars)))

\* int(s) of a string of decimal digits
RECURSIVE DecimalValue(_, _)
DecimalValue(chars, acc) ==
  IF chars = <<>> THEN acc
  ELSE DecimalValue(Tail(chars), 10 * acc + DigitValue(Head(chars)))

\* int(s): nothing when it raises ValueError
ParseInt(chars) ==
  IF chars # <<>> /\ \A j \in DOMAIN chars : chars[j] \in Digits
  THEN Some(DecimalValue(chars, 0))
  ELSE Nothing

\* hour, minute = map(int, time.split(":")) and hour * 60 + minute: nothing
\* when the unpacking or int() raises ValueError
ParseMinutes(time) ==
  LET parts == SplitColon(TimeChars(time), <<>>)
  IN IF Len(parts) # 2 THEN Nothing
     ELSE IF ParseInt(parts[1]) = Nothing \/ ParseInt(parts[2]) = Nothing
          THEN Nothing
     ELSE Some(Get(ParseInt(parts[1])) * 60 + Get(ParseInt(parts[2])))

\* the stage of a photoperiod of so many minutes of light
StageOfLight(light_minutes) ==
  IF light_minutes <= 750 THEN "flower"          \* light_hours <= 12.5
  ELSE IF light_minutes >= 960 THEN "veg"        \* light_hours >= 16
  ELSE "transition"

\* What the model keeps of the result dict.
GrowthStage(stage, inferred, light_hours) ==
  [stage |-> stage, inferred |-> inferred, light_hours |-> light_hours]

\* A slip: an off time equal to the on time gives no light instead of 24 hours.
InferGrowthStageEqualIsEmpty(on_time, off_time, manual_stage) ==
  IF manual_stage # None /\ manual_stage # ""
  THEN GrowthStage(manual_stage, FALSE, Null)
  ELSE IF on_time = None \/ on_time = "" \/ off_time = None \/ off_time = ""
  THEN GrowthStage("unknown", TRUE, Null)
  ELSE IF ParseMinutes(on_time) = Nothing \/ ParseMinutes(off_time) = Nothing
  THEN GrowthStage("unknown", TRUE, Null)
  ELSE LET on_minutes == Get(ParseMinutes(on_time))
           off_minutes == Get(ParseMinutes(off_time))
           light_minutes == IF off_minutes >= on_minutes
                            THEN off_minutes - on_minutes
                            ELSE (24 * 60 - on_minutes) + off_minutes
       IN GrowthStage(StageOfLight(light_minutes), TRUE,
                      Num(Round1(light_minutes * 100, 60)))

\* infer_growth_stage(schedules, growth_stage_config) without a flower start
\* date: schedules holds photoperiod_on and photoperiod_off, the
\* configuration the manually set stage (None: not there)
InferGrowthStage(on_time, off_time, manual_stage) ==
  IF manual_stage # None /\ manual_stage # ""
  THEN GrowthStage(manual_stage, FALSE, Null)
  ELSE IF on_time = None \/ on_time = "" \/ off_time = None \/ off_time = ""
  THEN GrowthStage("unknown", TRUE, Null)
  ELSE IF ParseMinutes(on_time) = Nothing \/ ParseMinutes(off_time) = Nothing
  THEN GrowthStage("unknown", TRUE, Null)
  ELSE LET on_minutes == Get(ParseMinutes(on_time))
           off_minutes == Get(ParseMinutes(off_time))
           light_minutes == IF off_minutes > on_minutes
                            THEN off_minutes - on_minutes
                            ELSE (24 * 60 - on_minutes) + off_minutes
       IN GrowthStage(StageOfLight(light_minutes), TRUE,
                      Num(Round1(light_minutes * 100, 60)))

(***************************************************************************)
(* state_manager.py: TentState                                             *)
(***************************************************************************)
SensorFields == {"temperature", "humidity"}

\* TentState.__init__
NewTentState ==
  [sensors |-> <<>>, vpd |-> Null, avg_temperature |-> Null,
   avg_humidity |-> Null, environment_score |-> 0]

\* d[key] = val on a dict
Put(d, key, val) == [x \in DOMAIN d \cup {key} |-> IF x = key THEN val ELSE d[x]]

RECURSIVE SumOver(_, _)
\* sum(values) over the entities in S
SumOver(S, entities) ==
  IF S = {} THEN 0
  ELSE LET e == CHOOSE x \in S : TRUE
       IN entities[e].v + SumOver(S \ {e}, entities)

\* The characters of the unit strings the model uses.
Chars(unit) ==
  CASE unit = "C" -> <<"C">>
    [] unit = "F" -> <<"F">>
    [] unit = "f" -> <<"f">>
    [] unit = "K" -> <<"K">>
    [] unit = "%" -> <<"%">>
    [] unit = "" -> <<>>

\* str.lower() on one character
Lower(c) ==
  CASE c = "C" -> "c"
    [] c = "F" -> "f"
    [] c = "K" -> "k"
    [] OTHER -> c

\* unit and "f" in unit.lower()
UnitHasF(unit) ==
  /\ unit # None
  /\ \E j \in DOMAIN Chars(unit) : Lower(Chars(unit)[j]) = "f"

\* A slip: only the unit decides, the heuristic for a missing unit is gone.
NormalizeTemperatureUnitOnly(sensor_type, value, unit) ==
  IF sensor_type = "temperature" /\ IsNum(value)
  THEN IF UnitHasF(unit)
       THEN Num(FahrenheitToCelsius1(value.v))
       ELSE Num(Round1(value.v, 1))
  ELSE value

\* the temperature normalisation that opens update_sensor
NormalizeTemperature(sensor_type, value, unit) ==
  IF sensor_type = "temperature" /\ IsNum(value)
  THEN IF UnitHasF(unit) \/ (unit = None /\ value.v > 5000)
       THEN Num(FahrenheitToCelsius1(value.v))
       ELSE Num(Round1(value.v, 1))
  ELSE value

\* values = [v for v in existing["_entities"].values() if v is not None]
NonNull(entities) == {e \in DOMAIN entities : entities[e].k # "null"}

\* sum(values) raises TypeError when a value is a string
SumRaises(entities) == \E e \in NonNull(entities) : entities[e].k = "str"

\* A slip: the sum is divided by the number of entities, the ones whose
\* latest value is None included.
AverageEntitiesAllCounted(entities) ==
  LET S == {e \in DOMAIN entities : entities[e].k # "null"}
  IN IF S = {} THEN Null
     ELSE Num(Round1(SumOver(S, entities), Cardinality(DOMAIN entities)))

\* round(sum(values) / len(values), 1) if values else None
AverageEntities(entities) ==
  LET S == NonNull(entities)
  IN IF S = {} THEN Null ELSE Num(Round1(SumOver(S, entities), Cardinality(S)))

\* TentState._get_averaged_value(sensor_type)
GetAveragedValue(sensors, sensor_type) ==
  IF sensor_type \in DOMAIN sensors /\ IsNum(sensors[sensor_type].value)
  THEN Num(Round1(sensors[sensor_type].value.v, 1))
  ELSE Null

\* A slip: vpd is unset when an average is missing.
RecalculateResetting(tent) ==
  LET avg_temp == GetAveragedValue(tent.sensors, "temperature")
      avg_humidity == GetAveragedValue(tent.sensors, "humidity")
      vpd == IF IsNum(avg_temp) /\ IsNum(avg_humidity)
             THEN Num(CalculateVpd(avg_temp.v, avg_humidity.v))
             ELSE Null
  IN [tent EXCEPT !.avg_temperature = avg_temp,
                  !.avg_humidity = avg_humidity,
                  !.vpd = vpd,
                  !.environment_score =
                      CalculateEnvironmentScore(avg_temp, avg_humidity, vpd)]

\* TentState._recalculate
Recalculate(tent) ==
  LET avg_temp == GetAveragedValue(tent.sensors, "temperature")
      avg_humidity == GetAveragedValue(tent.sensors, "humidity")
      vpd == IF IsNum(avg_temp) /\ IsNum(avg_humidity)
             THEN Num(CalculateVpd(avg_temp.v, avg_humidity.v))
             ELSE tent.vpd
  IN [tent EXCEPT !.avg_temperature = avg_temp,
                  !.avg_humidity = avg_humidity,
                  !.vpd = vpd,
                  !.environment_score =
                      CalculateEnvironmentScore(avg_temp, avg_humidity, vpd)]

\* TentState.update_sensor(sensor_type, value, unit, entity_id): the tent
\* after the call and whether the call raised (the tent is then left as it
\* was when the exception was thrown)
UpdateSensor(tent, sensor_type, raw, unit, entity_id) ==
  LET value == NormalizeTemperature(sensor_type, raw, unit) IN
  IF sensor_type \in DOMAIN tent.sensors /\ entity_id # None
  THEN LET existing == tent.sensors[sensor_type]
           entities == Put(existing.entities, entity_id, value)
           stored == [existing EXCEPT !.entities = entities]
       IN IF SumRaises(entities)
          THEN [tent |-> [tent EXCEPT !.sensors = Put(tent.sensors, sensor_type, stored)],
                raised |-> TRUE]
          ELSE [tent |-> Recalculate(
                   [tent EXCEPT !.sensors =
                      Put(tent.sensors, sensor_type,
                          [stored EXCEPT !.value = AverageEntities(entities)])]),
                raised |-> FALSE]
  ELSE [tent |-> Recalculate(
           [tent EXCEPT !.sensors =
              Put(tent.sensors, sensor_type,
                  [value |-> value, unit |-> unit,
                   entities |-> IF entity_id # None
                                THEN [e \in {entity_id} |-> value] ELSE <<>>])]),
        raised |-> FALSE]

\* The entities of tent t1 and the slot each is configured for.
SensorEntities == {"sensor.a", "sensor.b", "sensor.h"}

SlotOf(entity_id) == IF entity_id = "sensor.h" THEN "humidity" ELSE "temperature"

\* The readings an entity may report: <<value, unit_of_measurement>>.
EntityReadings(entity_id) ==
  IF SlotOf(entity_id) = "temperature"
  THEN { <<Num(2200), "C">>, <<Num(2600), None>>, <<Num(3000), "C">>,
         <<Num(7700), None>>, <<Num(7160), "F">>,
         <<Unavailable, "C">>, <<Null, None>> }
  ELSE { <<Num(5500), "%">>, <<Num(5525), "%">>, <<Unavailable, "%">> }

\* one call of update_sensor on tent t1
UpdateSensorCall ==
  \E entity_id \in SensorEntities :
    \E rd \in EntityReadings(entity_id) :
      LET res == UpdateSensor(tents["t1"], SlotOf(entity_id), rd[1], rd[2], entity_id)
      IN /\ tents' = [tents EXCEPT !["t1"] = res.tent]
         /\ upd' = [field |-> SlotOf(entity_id), entity_id |-> entity_id,
                    raised |-> res.raised]
         /\ UNCHANGED <<autoVars, coordVars, lifeVars, extraVars, fresh>>

(***************************************************************************)
(* state_manager.py: the periodic loops and _check_alerts                  *)
(***************************************************************************)
Loops == {"alert", "history"}

\* A periodic task: pc is none (not created), ready (about to test
\* `while self._running`), sleeping (in asyncio.sleep) or ended; last is
\* how its latest tick went (none, ok, error).
LoopAt(pc, last) == [pc |-> pc, last |-> last]

\* StateManager.__init__ and HAClient.__init__ outside dev mode: not
\* running, no periodic task; a new TentState has no alerts and its
\* configuration enables notifications unless it says otherwise.
NoLifecycle ==
  /\ sm_running = FALSE
  /\ stopped = FALSE
  /\ dev_mode = FALSE
  /\ periodic = [x \in Loops |-> LoopAt("none", "none")]
  /\ alerts = [t \in TentIds |-> {}]
  /\ notify = [t \in TentIds |-> TRUE]

AlertTempMin == 1800         \* targets.get("temp_day_min", 18)
AlertTempMax == 3000         \* targets.get("temp_day_max", 30)
AlertHumidityMin == 4000     \* targets.get("humidity_day_min", 40)
AlertHumidityMax == 7000     \* targets.get("humidity_day_max", 70)
ReservoirLow == 2000         \* float(reservoir) < 20

\* What the model keeps of an alert dict.
Alert(type, severity) == [type |-> type, severity |-> severity]

\* tent.sensors.get(field, {}).get("value")
SensorValue(tent, field) ==
  IF field \in DOMAIN tent.sensors THEN tent.sensors[field].value ELSE Null

\* notifications.get(toggle, True) for the four alert toggles
AlertToggles ==
  {"alert_temp_out_of_range", "alert_humidity_out_of_range",
   "alert_leak_detected", "alert_reservoir_low"}

AllEnabled == [g \in AlertToggles |-> TRUE]

\* A slip: the range bounds are exclusive, a value equal to the minimum or
\* the maximum raises the alert, and so does a reservoir at the low mark.
AlertBodyExclusive(temp, humidity, leak, reservoir, toggles) ==
  LET temp_checked == temp.k # "null" /\ toggles["alert_temp_out_of_range"]
      hum_checked == humidity.k # "null" /\ toggles["alert_humidity_out_of_range"]
  IN IF (temp_checked /\ temp.k = "str")
        \/ (hum_checked /\ humidity.k = "str")
     THEN [alerts |-> {}, raised |-> TRUE]
     ELSE [alerts |->
             (IF temp_checked
                 /\ (temp.v <= AlertTempMin \/ temp.v >= AlertTempMax)
              THEN {Alert("temp_out_of_range", "warning")} ELSE {})
             \cup
             (IF hum_checked
                 /\ (humidity.v <= AlertHumidityMin \/ humidity.v >= AlertHumidityMax)
              THEN {Alert("humidity_out_of_range", "warning")} ELSE {})
             \cup
             (IF leak = "on" /\ toggles["alert_leak_detected"]
              THEN {Alert("leak_detected", "critical")} ELSE {})
             \cup
             (IF IsNum(reservoir) /\ toggles["alert_reservoir_low"]
                 /\ reservoir.v <= ReservoirLow
              THEN {Alert("reservoir_low", "warning")} ELSE {}),
           raised |-> FALSE]

\* The body of the loop of _check_alerts for one tent whose notifications
\* are enabled, given the values of its four slots and its toggles: the
\* alerts list it builds, or raised when a comparison
\* `value < min or value > max` meets a string (TypeError).  A non-numeric
\* reservoir fails float() and is passed over.
AlertBody(temp, humidity, leak, reservoir, toggles) ==
  LET temp_checked == temp.k # "null" /\ toggles["alert_temp_out_of_range"]
      hum_checked == humidity.k # "null" /\ toggles["alert_humidity_out_of_range"]
  IN IF (temp_checked /\ temp.k = "str")
        \/ (hum_checked /\ humidity.k = "str")
     THEN [alerts |-> {}, raised |-> TRUE]
     ELSE [alerts |->
             (IF temp_checked
                 /\ (temp.v < AlertTempMin \/ temp.v > AlertTempMax)
              THEN {Alert("temp_out_of_range", "warning")} ELSE {})
             \cup
             (IF hum_checked
                 /\ (humidity.v < AlertHumidityMin \/ humidity.v > AlertHumidityMax)
              THEN {Alert("humidity_out_of_range", "warning")} ELSE {})
             \cup
             (IF leak = "on" /\ toggles["alert_leak_detected"]
              THEN {Alert("leak_detected", "critical")} ELSE {})
             \cup
             (IF IsNum(reservoir) /\ toggles["alert_reservoir_low"]
                 /\ reservoir.v < ReservoirLow
              THEN {Alert("reservoir_low", "warning")} ELSE {}),
           raised |-> FALSE]

\* The body for a tent of the model: its sensors are temperature and
\* humidity, its toggles the defaults.
TentAlerts(tent) ==
  AlertBody(SensorValue(tent, "temperature"), SensorValue(tent, "humidity"),
            "off", Null, AllEnabled)

\* self.tents.items(): the tents in the order _load_config inserted them
TentOrder == <<"t1", "t2">>

RECURSIVE CheckAlertsFrom(_, _)
\* _check_alerts from the j-th tent on, acc being the alerts so far: a tent
\* with notifications disabled is skipped, `tent.alerts = alerts` ends the
\* body, and an exception leaves this tent and the ones after it untouched.
CheckAlertsFrom(j, acc) ==
  IF j > Len(TentOrder) THEN [alerts |-> acc, raised |-> FALSE]
  ELSE LET t == TentOrder[j] IN
       IF t \notin DOMAIN tents \/ ~notify[t] THEN CheckAlertsFrom(j + 1, acc)
       ELSE LET r == TentAlerts(tents[t]) IN
            IF r.raised THEN [alerts |-> acc, raised |-> TRUE]
            ELSE CheckAlertsFrom(j + 1, [acc EXCEPT ![t] = r.alerts])

\* _check_alerts()
CheckAlerts == CheckAlertsFrom(1, alerts)

\* A slip: an exception of the tick ends the loop.
TickFatal(x, ok) ==
  /\ periodic[x].pc = "ready"
  /\ running = None
  /\ IF ~sm_running
     THEN /\ periodic' = [periodic EXCEPT ![x].pc = "ended"]
          /\ UNCHANGED alerts
     ELSE LET swept == CheckAlerts
              raised == IF x = "alert" THEN swept.raised ELSE ~ok
          IN /\ alerts' = IF x = "alert" THEN swept.alerts ELSE alerts
             /\ periodic' = [periodic EXCEPT ![x] =
                               IF raised THEN LoopAt("ended", "error")
                               ELSE LoopAt("sleeping", "ok")]
  /\ UNCHANGED <<autoVars, tentVars, coordVars>>
  /\ UNCHANGED <<sm_running, stopped, dev_mode, notify, extraVars, fresh>>

\* _alert_check_loop / _history_record_loop from `while self._running` to
\* the next asyncio.sleep: the loop ends when _running is False; otherwise
\* the tick runs, an Exception is logged, and the task sleeps either way.
\* _check_alerts does not use its database session, so only its data can
\* make it raise; ok is whether _record_history's commit succeeded.
Tick(x, ok) ==
  /\ periodic[x].pc = "ready"
  /\ running = None
  /\ IF ~sm_running
     THEN /\ periodic' = [periodic EXCEPT ![x].pc = "ended"]
          /\ UNCHANGED alerts
     ELSE LET swept == CheckAlerts
              raised == IF x = "alert" THEN swept.raised ELSE ~ok
          IN /\ alerts' = IF x = "alert" THEN swept.alerts ELSE alerts
             /\ periodic' = [periodic EXCEPT ![x] =
                               LoopAt("sleeping", IF raised THEN "error" ELSE "ok")]
  /\ UNCHANGED <<autoVars, tentVars, coordVars>>
  /\ UNCHANGED <<sm_running, stopped, dev_mode, notify, extraVars, fresh>>

\* asyncio.sleep(60) / asyncio.sleep(300) is over
Wake(x) ==
  /\ periodic[x].pc = "sleeping"
  /\ running = None
  /\ periodic' = [periodic EXCEPT ![x].pc = "ready"]
  /\ UNCHANGED <<autoVars, tentVars, coordVars>>
  /\ UNCHANGED <<sm_running, stopped, dev_mode, alerts, notify, extraVars, fresh>>

\* The commands the client may send: the values message_id takes.
MaxCommands == 3

CommandIds == 1..MaxCommands

\* The state-change events Home Assistant sends.
MaxHaEvents == 2

\* A task of the client that awaits nothing of it.
NotWaiting(pc) == [pc |-> pc, id |-> 0]

\* HAClient.__init__ and connect(): message_id 0, no pending response, the
\* receive loop at ws.recv(); nothing is on the socket, Home Assistant has
\* no command to answer, no task outside the receive loop has called.
HAClientNew ==
  [message_id |-> 0,
   pending |-> {},            \* the keys of _pending_responses
   resolved |-> {},           \* the futures that have their result
   wire |-> <<>>,             \* what Home Assistant has sent and recv() has not returned
   sent |-> {},               \* the commands Home Assistant has not answered
   events |-> 0,              \* the events Home Assistant has sent
   recv |-> NotWaiting("recv"),
   api |-> NotWaiting("idle"),
   api2 |-> NotWaiting("idle"),
   issuer |-> [c \in CommandIds |-> None],
   outcome |-> [c \in CommandIds |-> None]]

\* No function has been called, the client has sent no command.
NoCalls ==
  /\ calc = [fn |-> None]
  /\ ha = HAClientNew
  /\ fresh = {}

\* No rules file has been written, and StateManager.__init__'s empty table.
NoExtras ==
  /\ NoCalls
  /\ rules_file = {}
  /\ entity_to_tent = <<>>

\* AutomationEngine.__init__ and load_rules: every rule gets a fresh RuleState
EngineInit ==
  /\ rules \in [RuleIds -> RuleConfigs]
  /\ rule_states = [r \in RuleIds |-> RuleState]
  /\ actuators \in { [exhaust_fan |-> "switch.fan"], [light |-> "switch.light"] }
  /\ now = 0
  /\ sched_wake = 0
  /\ reading = [op |-> None, tent_id |-> None, sensor_type |-> None, value |-> 0]
  /\ ha_calls = <<>>

\* The tent aggregates are not part of the engine's specification.
NoTents ==
  /\ tents = <<>>
  /\ upd = [field |-> None, entity_id |-> None, raised |-> FALSE]

\* The coordinator is not part of the engine's specification.
NoCoordinator ==
  /\ ws_clients = <<>>
  /\ closed = {}
  /\ tasks = <<>>
  /\ running = None
  /\ events_left = 0
  /\ reloads = 0
  /\ applied = 0

\* The rules in memory are the ones load_rules read from the rules file.
Init ==
  /\ EngineInit /\ NoTents /\ NoCoordinator /\ NoLifecycle /\ NoCalls
  /\ rules_file = {rules[r] : r \in RuleIds}
  /\ entity_to_tent = <<>>

Evaluate ==
  \E tent_id \in TentIds, sensor_type \in SensorTypes, value \in Readings :
    EvaluateSensorRules(tent_id, sensor_type, value)

Next ==
  \/ Evaluate
  \/ CheckSchedules
  \/ Advance

Spec == Init /\ [][Next]_vars

(***************************************************************************)
(* The tent aggregate on its own: update_sensor calls on one tent.         *)
(***************************************************************************)
\* The engine is not part of the aggregate's specification.
EngineIdle ==
  /\ rules = <<>>
  /\ rule_states = <<>>
  /\ actuators = <<>>
  /\ now = 0
  /\ sched_wake = 0
  /\ reading = [op |-> None, tent_id |-> None, sensor_type |-> None, value |-> 0]
  /\ ha_calls = <<>>

InitTent ==
  /\ EngineIdle
  /\ NoCoordinator
  /\ NoLifecycle
  /\ NoExtras
  /\ tents = [t \in {"t1"} |-> NewTentState]
  /\ upd = [field |-> None, entity_id |-> None, raised |-> FALSE]

NextTent == UpdateSensorCall

SpecTent == InitTent /\ [][NextTent]_vars

(***************************************************************************)
(* Properties of the automation engine, checked under Spec.                *)
(***************************************************************************)
\* A step that is one call of evaluate_sensor_rules; its input is reading'.
EvalStep == reading'.op = "evaluate" /\ now' = now /\ sched_wake' = sched_wake

\* A step that is one iteration of _schedule_loop.
ScheduleStep == reading'.op = "schedule" /\ sched_wake' # sched_wake

\* The rule is enabled and the reading is for its tent and trigger sensor.
ReadingFor(rule) ==
  /\ rule.enabled
  /\ rule.tent_id = reading'.tent_id
  /\ rule.trigger_sensor = reading'.sensor_type

\* Less than `limit` seconds have passed since the recorded last_action_time.
Within(st, limit) ==
  st.last_action_time # Nothing /\ now - Get(st.last_action_time) < limit

\* The minimum duration of the last executed action has not passed yet.
InsideMinDuration(rule, st) ==
  \/ st.last_action = "on" /\ Within(st, rule.min_on_duration)
  \/ st.last_action = "off" /\ Within(st, rule.min_off_duration)

\* C1: a sensor_above rule with threshold T and hysteresis H enters the
\* triggered state only on a reading > T and leaves it only on a reading
\* < T - H (a reading equal to T - H leaves it triggered); a sensor_below
\* rule enters only on a reading < T and leaves only on a reading > T + H.
C1_HysteresisTransitions ==
  [][\A r \in RuleIds :
       LET rule == rules[r]
           pre == rule_states[r].triggered
           post == rule_states'[r].triggered
       IN /\ rule.trigger_type = "sensor_above" =>
               /\ (~pre /\ post) =>
                     EvalStep /\ ReadingFor(rule) /\ reading'.value > rule.trigger_value
               /\ (pre /\ ~post) =>
                     /\ EvalStep /\ ReadingFor(rule)
                     /\ reading'.value < rule.trigger_value - rule.hysteresis
          /\ rule.trigger_type = "sensor_below" =>
               /\ (~pre /\ post) =>
                     EvalStep /\ ReadingFor(rule) /\ reading'.value < rule.trigger_value
               /\ (pre /\ ~post) =>
                     /\ EvalStep /\ ReadingFor(rule)
                     /\ reading'.value > rule.trigger_value + rule.hysteresis
    ]_vars

\* C1 witness: a sensor_above rule that fired "on" earlier, is past its
\* cooldown, was fed exactly T - H and is still triggered.
C1_Witness ==
  /\ rules["r1"].trigger_type = "sensor_above"
  /\ rules["r1"].enabled
  /\ reading.op = "evaluate"
  /\ reading.tent_id = "t1" /\ reading.sensor_type = "temperature"
  /\ reading.value = rules["r1"].trigger_value - rules["r1"].hysteresis
  /\ rule_states["r1"].triggered
  /\ rule_states["r1"].last_action_time # Nothing
  /\ now - Get(rule_states["r1"].last_action_time) >= rules["r1"].min_on_duration
  /\ ha_calls = <<>>

\* C2 (as claimed): an evaluation that falls inside the minimum duration of
\* the last executed action, and so executes nothing, leaves triggered as
\* it was before the reading.
C2_TriggeredKeptWhenSuppressed ==
  [][\A r \in RuleIds :
       LET rule == rules[r]
           st == rule_states[r]
       IN (/\ EvalStep /\ ReadingFor(rule)
           /\ ~Within(st, rule.cooldown)
           /\ InsideMinDuration(rule, st)
           /\ ha_calls' = <<>>)
          => rule_states'[r].triggered = st.triggered
    ]_vars

\* C3: while less than cooldown seconds have passed since the recorded
\* last_action_time, an evaluation leaves the rule's runtime state as it
\* was and issues no call, whatever the reading.
C3_CooldownSkips ==
  [][\A r \in RuleIds :
       (EvalStep /\ Within(rule_states[r], rules[r].cooldown))
       => rule_states'[r] = rule_states[r] /\ ha_calls' = <<>>
    ]_vars

\* C3 witness: right after "on" was executed (last_action_time = now) the
\* rule was fed a reading below T - H, which would reverse the action, and
\* nothing happened.
C3_Witness ==
  /\ rules["r1"].trigger_type = "sensor_above"
  /\ rules["r1"].enabled
  /\ reading.op = "evaluate"
  /\ reading.tent_id = "t1" /\ reading.sensor_type = "temperature"
  /\ reading.value < rules["r1"].trigger_value - rules["r1"].hysteresis
  /\ rule_states["r1"].triggered
  /\ rule_states["r1"].last_action = "on"
  /\ rule_states["r1"].last_action_time = Some(now)
  /\ ha_calls = <<>>

InRange(rule, value) == rule.trigger_value <= value /\ value <= rule.trigger_value_max

C5_ScheduleOnIsSent ==
  [][\A r \in RuleIds :
       LET rule == rules[r] IN
       (/\ ScheduleStep
        /\ rule.enabled /\ rule.trigger_type = "schedule"
        /\ rule.trigger_schedule_on = CurrentTime(now)
        /\ rule_states[r].last_action # "on"
        /\ rule.action_actuator \in DOMAIN actuators)
       => \E i \in 1..Len(ha_calls') : ha_calls'[i].service \in {"turn_on", "set_percentage"}
    ]_vars

(***************************************************************************)
(* Properties of the tent aggregate, checked under SpecTent.               *)
(***************************************************************************)
TheTent == tents["t1"]

\* The entities of a field whose latest value is a number.
NumericEntities(entities) == {e \in DOMAIN entities : entities[e].k = "num"}

\* Every entity's latest value is a number or None.
NoStrings(entities) == \A e \in DOMAIN entities : entities[e].k # "str"

RECURSIVE TotalOf(_, _)
TotalOf(S, entities) ==
  IF S = {} THEN 0
  ELSE LET e == CHOOSE x \in S : TRUE IN entities[e].v + TotalOf(S \ {e}, entities)

\* The mean of the latest numeric values, rounded to one decimal (None
\* when there is none).
RoundedMean(entities) ==
  LET S == NumericEntities(entities)
  IN IF S = {} THEN Null
     ELSE Num(10 * RoundHalfEven(TotalOf(S, entities), 10 * Cardinality(S)))

MeanOfLatest(sensors, f) ==
  LET entities == sensors[f].entities
      S == NumericEntities(entities)
  IN \/ sensors[f].value = RoundedMean(entities)
     \/ /\ Cardinality(S) = 1
        /\ \E e \in S : sensors[f].value = entities[e]

DerivedFrom(tent) ==
  LET avg_temp == GetAveragedValue(tent.sensors, "temperature")
      avg_humidity == GetAveragedValue(tent.sensors, "humidity")
  IN /\ tent.avg_temperature = avg_temp
     /\ tent.avg_humidity = avg_humidity
     /\ (IsNum(avg_temp) /\ IsNum(avg_humidity)) =>
           tent.vpd = Num(CalculateVpd(avg_temp.v, avg_humidity.v))
     /\ tent.environment_score =
           CalculateEnvironmentScore(avg_temp, avg_humidity, tent.vpd)

\* The value of a field reflects the per-entity readings stored for it: a
\* mean of the numeric ones, and no number when there is none.
FieldAveraged(sensors, f) ==
  IF NumericEntities(sensors[f].entities) = {}
  THEN ~IsNum(sensors[f].value)
  ELSE MeanOfLatest(sensors, f)

\* C7 (as claimed): in every state between two update_sensor calls the
\* field values are the averages of the stored per-entity readings and
\* avg_temperature, avg_humidity, vpd and environment_score are derived
\* from them.
C7_DerivedValuesCurrent ==
  /\ \A f \in DOMAIN TheTent.sensors : FieldAveraged(TheTent.sensors, f)
  /\ DerivedFrom(TheTent)

\* C8 (as claimed): update_sensor never raises, and a non-numeric reading
\* stored for an entity is left out of the field's average.
C8_NonNumericTolerated ==
  /\ ~upd.raised
  /\ \A f \in DOMAIN TheTent.sensors :
       (\E e \in DOMAIN TheTent.sensors[f].entities :
           TheTent.sensors[f].entities[e].k = "str")
       => FieldAveraged(TheTent.sensors, f)

(***************************************************************************)
(* The state coordinator: the receive loop delivering state-change events, *)
(* the task that loads the snapshot (start, reload_config), and the        *)
(* websocket subscribers.  The tasks share one event loop: a task runs     *)
(* until it awaits, and only the awaits that can suspend are steps here.   *)
(* The automation engine is absent, as main.py constructs the coordinator   *)
(* without one.                                                            *)
(***************************************************************************)
MaxEvents == 2

MaxReloads == 2

Tasks == {"recv", "load"}

Clients == {"c1", "c2"}

\* StateManager.entity_to_tent as _load_config builds it for tent t1
EntityToTent == [e \in SensorEntities |-> <<"t1", "sensor", SlotOf(e)>>]

\* The state-change events Home Assistant may deliver:
\* <<entity_id, state, unit_of_measurement>>.
LiveEvents ==
  { <<"sensor.a", Num(2200), "C">>, <<"sensor.a", Unavailable, "C">>,
    <<"sensor.b", Num(2600), "C">>, <<"sensor.x", Num(2200), "C">>,
    <<"sensor.h", Unavailable, "%">> }

\* What get_states may return: one state per entity.
Snapshots ==
  { << <<"sensor.a", Num(2200), "C">>, <<"sensor.b", r, "C">> >> :
       r \in {Num(2600), Unavailable} }

Range(list) == {list[j] : j \in DOMAIN list}

\* list.remove(x) for an x that is in the list
ListRemove(list, x) ==
  LET k == CHOOSE j \in 1..Len(list) :
              list[j] = x /\ \A m \in 1..(j - 1) : list[m] # x
  IN [j \in 1..(Len(list) - 1) |-> IF j < k THEN list[j] ELSE list[j + 1]]

\* for ws in disconnected: self.ws_clients.remove(ws), which raises
\* ValueError for a ws that is no longer in the list
RECURSIVE RemoveDisconnected(_, _)
RemoveDisconnected(list, disconnected) ==
  IF disconnected = <<>> THEN [list |-> list, raised |-> FALSE]
  ELSE IF Head(disconnected) \notin Range(list)
       THEN [list |-> list, raised |-> TRUE]
       ELSE RemoveDisconnected(ListRemove(list, Head(disconnected)),
                               Tail(disconnected))

\* A task that is not processing anything.
TaskAt(pc, phase) ==
  [pc |-> pc, phase |-> phase, snapshot |-> <<>>, i |-> 0, ws |-> None,
   disconnected |-> <<>>, live |-> {}, sent |-> {}]

\* _broadcast_update up to its loop: the message is built, no client has
\* been sent to yet.
BeginBroadcast(task) ==
  [task EXCEPT !.pc = "broadcast", !.i = 1, !.ws = None,
               !.disconnected = <<>>, !.live = Range(ws_clients), !.sent = {}]

\* load_tents_config(): the tents of the configuration, none when the file
\* cannot be read (the exception is swallowed and [] returned)
LoadTentsConfig(config_ok) ==
  IF config_ok THEN [t \in {"t1"} |-> NewTentState] ELSE <<>>

\* _load_config's loop: the table entries of the tents of the configuration
LoadEntityToTent(config_ok) ==
  IF config_ok THEN EntityToTent ELSE <<>>

\* StateManager.entity_to_tent, as the handlers read it
RoutingTable == entity_to_tent

\* `if entity_id not in self.entity_to_tent: return`, then
\* `tent = self.tents.get(tent_id); if not tent: return`
Routed(entity_id) ==
  /\ entity_id \in DOMAIN RoutingTable
  /\ RoutingTable[entity_id][1] \in DOMAIN tents

\* StateManager() as main.py constructs it: no tents until start() runs
InitCoord ==
  /\ EngineIdle
  /\ NoExtras
  /\ NoLifecycle
  /\ tents = <<>>
  /\ upd = [field |-> None, entity_id |-> None, raised |-> FALSE]
  /\ ws_clients = <<>>
  /\ closed = {}
  /\ tasks = [t \in Tasks |-> IF t = "recv" THEN TaskAt("idle", None)
                              ELSE TaskAt("new", None)]
  /\ running = None
  /\ events_left = MaxEvents
  /\ reloads = 0
  /\ applied = 0

\* A slip: the periodic tasks are created before the snapshot is fetched.
StartLoopsFirst ==
  /\ tasks["load"].pc = "new"
  /\ running = None
  /\ sm_running' = TRUE
  /\ \E config_ok \in BOOLEAN :
       /\ tents' = LoadTentsConfig(config_ok)
       /\ entity_to_tent' = LoadEntityToTent(config_ok)
  /\ tasks' = [tasks EXCEPT !["load"] =
                 IF stopped /\ ~dev_mode THEN TaskAt("crashed", "start")
                 ELSE TaskAt("get_states", "start")]
  /\ UNCHANGED <<autoVars, upd, ws_clients, closed, running, events_left,
                 reloads, applied>>
  /\ periodic' = [x \in Loops |-> LoopAt("ready", "none")]
  /\ UNCHANGED <<stopped, dev_mode, alerts, notify, calc, ha, rules_file, fresh>>

\* start(): _running = True, _load_config, the subscription, then the await
\* of get_states.  Outside dev mode the subscription raises "Not connected"
\* once the client has been disconnected, and start() ends there.
Start ==
  /\ tasks["load"].pc = "new"
  /\ running = None
  /\ sm_running' = TRUE
  /\ \E config_ok \in BOOLEAN :
       /\ tents' = LoadTentsConfig(config_ok)
       /\ entity_to_tent' = LoadEntityToTent(config_ok)
  /\ tasks' = [tasks EXCEPT !["load"] =
                 IF stopped /\ ~dev_mode THEN TaskAt("crashed", "start")
                 ELSE TaskAt("get_states", "start")]
  /\ UNCHANGED <<autoVars, upd, ws_clients, closed, running, events_left,
                 reloads, applied>>
  /\ UNCHANGED <<stopped, dev_mode, periodic, alerts, notify, calc, ha, rules_file,
                 fresh>>

\* A slip: reload_config clears the tents but leaves the table to be
\* overwritten by _load_config.
ReloadConfigKeepingTable(t) ==
  /\ tasks[t].pc \in {"idle", "done", "crashed"}
  /\ tasks["load"].pc # "new"
  /\ running = None
  /\ reloads < MaxReloads
  /\ reloads' = reloads + 1
  /\ \E config_ok \in BOOLEAN :
       /\ tents' = LoadTentsConfig(config_ok)
       /\ entity_to_tent' = IF config_ok THEN LoadEntityToTent(config_ok)
                             ELSE entity_to_tent
  /\ alerts' = [x \in TentIds |-> {}]
  /\ tasks' = [tasks EXCEPT ![t] = TaskAt("get_states", "reload")]
  /\ UNCHANGED <<autoVars, upd, ws_clients, closed, running, events_left, applied>>
  /\ UNCHANGED <<sm_running, stopped, dev_mode, periodic, notify, calc, ha,
                 rules_file, fresh>>

\* reload_config(): tents and entity_to_tent are cleared and rebuilt by
\* _load_config with no await between, the tents empty of readings; then the
\* await of get_states
ReloadConfigBy(t) ==
  /\ tasks[t].pc \in {"idle", "done", "crashed"}
  /\ tasks["load"].pc # "new"
  /\ running = None
  /\ reloads < MaxReloads
  /\ reloads' = reloads + 1
  /\ \E config_ok \in BOOLEAN :
       /\ tents' = LoadTentsConfig(config_ok)
       /\ entity_to_tent' = LoadEntityToTent(config_ok)
  /\ alerts' = [x \in TentIds |-> {}]
  /\ tasks' = [tasks EXCEPT ![t] = TaskAt("get_states", "reload")]
  /\ UNCHANGED <<autoVars, upd, ws_clients, closed, running, events_left, applied>>
  /\ UNCHANGED <<sm_running, stopped, dev_mode, periodic, notify, calc, ha,
                 rules_file, fresh>>

ReloadConfig == ReloadConfigBy("load")

\* get_states returns and _load_initial_states starts its loop; once the
\* client is disconnected no result arrives (dev mode answers from its mocks)
GetStatesReturnsTo(t) ==
  \E snap \in Snapshots :
    /\ tasks[t].pc = "get_states"
    /\ running = None
    /\ ~stopped \/ dev_mode
    /\ tasks' = [tasks EXCEPT ![t].pc = "next", ![t].snapshot = snap]
    /\ running' = t
    /\ fresh' = {}
    /\ UNCHANGED <<autoVars, tentVars, lifeVars, extraVars, ws_clients, closed,
                   events_left, reloads, applied>>

GetStatesReturns == GetStatesReturnsTo("load")

\* _process_state_update up to its first await, for a routed sensor entity:
\* update_sensor, then the start of the broadcast.  An exception of
\* update_sensor leaves the task at pc `failed`.
ProcessStateUpdate(t, ev, failed, rest) ==
  LET entity_id == ev[1]
      tent_id == RoutingTable[entity_id][1]
      res == UpdateSensor(tents[tent_id], RoutingTable[entity_id][3], ev[2], ev[3],
                          entity_id)
  IN /\ tents' = [tents EXCEPT ![tent_id] = res.tent]
     /\ upd' = [field |-> RoutingTable[entity_id][3], entity_id |-> entity_id,
                raised |-> res.raised]
     /\ applied' = applied + 1
     /\ IF res.raised
        THEN /\ tasks' = [tasks EXCEPT ![t] =
                            [TaskAt(failed, tasks[t].phase) EXCEPT !.snapshot = rest]]
             /\ running' = None
        ELSE /\ tasks' = [tasks EXCEPT ![t] =
                            [BeginBroadcast(tasks[t]) EXCEPT !.snapshot = rest]]
             /\ running' = t

\* _receive_loop, _handle_message and _on_state_change: one event is taken
\* from the socket; an exception of the callback is logged and the loop
\* goes on.
ReceiveEvent ==
  \E ev \in LiveEvents :
    /\ tasks["recv"].pc = "idle"
    /\ tasks["load"].pc # "new"
    /\ running = None
    /\ events_left > 0
    /\ events_left' = events_left - 1
    /\ IF Routed(ev[1])
       THEN ProcessStateUpdate("recv", ev, "idle", <<>>)
       ELSE UNCHANGED <<tentVars, tasks, running, applied>>
    /\ fresh' = IF Routed(ev[1]) THEN fresh \cup {ev[1]} ELSE fresh
    /\ UNCHANGED <<autoVars, lifeVars, extraVars, ws_clients, closed, reloads>>

\* _load_initial_states: the next entry of the snapshot, with no await
\* since the previous one; after the last, start() creates the two periodic
\* tasks and is over, and reload_config broadcasts the tent once more.  An
\* exception ends the task.
LoadNextOf(t) ==
  /\ tasks[t].pc = "next"
  /\ running = t
  /\ IF tasks[t].snapshot # <<>>
     THEN IF Routed(Head(tasks[t].snapshot)[1])
          THEN ProcessStateUpdate(t, Head(tasks[t].snapshot), "crashed",
                                  Tail(tasks[t].snapshot))
          ELSE /\ tasks' = [tasks EXCEPT ![t].snapshot =
                                           Tail(tasks[t].snapshot)]
               /\ UNCHANGED <<tentVars, applied, running>>
     ELSE /\ IF tasks[t].phase = "reload" /\ tents # <<>>
             THEN /\ tasks' = [tasks EXCEPT ![t] =
                                 [BeginBroadcast(tasks[t]) EXCEPT !.phase = "final"]]
                  /\ running' = t
             ELSE /\ tasks' = [tasks EXCEPT ![t] =
                                 TaskAt("done", tasks[t].phase)]
                  /\ running' = None
          /\ UNCHANGED <<tentVars, applied>>
  /\ periodic' = IF tasks'[t].pc = "done" /\ tasks[t].phase = "start"
                 THEN [x \in Loops |-> LoopAt("ready", "none")]
                 ELSE periodic
  /\ UNCHANGED <<autoVars, ws_clients, closed, events_left, reloads>>
  /\ UNCHANGED <<sm_running, stopped, dev_mode, alerts, notify, extraVars, fresh>>

LoadNext == LoadNextOf("load")

\* Where task t goes when its broadcast is over (raised: the removal of a
\* disconnected client raised ValueError).  reload_config's closing loop
\* over self.tents raises RuntimeError when the dict has lost its tent
\* during the broadcast.
AfterBroadcast(t, raised) ==
  IF t = "recv" THEN TaskAt("idle", None)
  ELSE IF raised THEN [TaskAt("crashed", tasks[t].phase) EXCEPT
                         !.snapshot = tasks[t].snapshot]
  ELSE IF tasks[t].phase = "final"
       THEN IF tents = <<>> THEN TaskAt("crashed", "final")
            ELSE TaskAt("done", "reload")
  ELSE [TaskAt("next", tasks[t].phase) EXCEPT !.snapshot = tasks[t].snapshot]

\* _broadcast_update: the loop over ws_clients takes the next client and
\* awaits send_text, or ends and removes the disconnected clients.
BroadcastNext(t) ==
  /\ tasks[t].pc = "broadcast"
  /\ running = t
  /\ IF tasks[t].i <= Len(ws_clients)
     THEN /\ tasks' = [tasks EXCEPT ![t].pc = "sending",
                                    ![t].ws = ws_clients[tasks[t].i]]
          /\ running' = None
          /\ UNCHANGED <<ws_clients, closed>>
     ELSE LET r == RemoveDisconnected(ws_clients, tasks[t].disconnected)
              next == AfterBroadcast(t, r.raised)
          IN /\ ws_clients' = r.list
             /\ closed' = closed \cup (Range(ws_clients) \ Range(r.list))
             /\ tasks' = [tasks EXCEPT ![t] = next]
             /\ running' = IF next.pc = "next" THEN t ELSE None
  /\ UNCHANGED <<autoVars, tentVars, lifeVars, extraVars, fresh, events_left, reloads, applied>>

\* send_text returns (ok) or raises: the task resumes its loop.
SendReturns(t, ok) ==
  /\ tasks[t].pc = "sending"
  /\ running = None
  /\ tasks' = [tasks EXCEPT
                 ![t].pc = "broadcast",
                 ![t].i = tasks[t].i + 1,
                 ![t].sent = IF ok THEN tasks[t].sent \cup {tasks[t].ws}
                             ELSE tasks[t].sent,
                 ![t].disconnected = IF ok THEN tasks[t].disconnected
                                     ELSE Append(tasks[t].disconnected, tasks[t].ws)]
  /\ running' = t
  /\ UNCHANGED <<autoVars, tentVars, lifeVars, extraVars, fresh, ws_clients, closed,
                 events_left, reloads, applied>>

\* websocket_endpoint: a new connection is added to the list
AddWebsocketClient(c) ==
  /\ running = None
  /\ c \notin Range(ws_clients)
  /\ c \notin closed
  /\ ws_clients' = Append(ws_clients, c)
  /\ UNCHANGED <<autoVars, tentVars, lifeVars, extraVars, fresh, closed, tasks, running,
                 events_left, reloads, applied>>

\* websocket_endpoint: the connection has ended and is removed from the list
RemoveWebsocketClient(c) ==
  /\ running = None
  /\ c \in Range(ws_clients)
  /\ ws_clients' = ListRemove(ws_clients, c)
  /\ closed' = closed \cup {c}
  /\ UNCHANGED <<autoVars, tentVars, lifeVars, extraVars, fresh, tasks, running, events_left,
                 reloads, applied>>

Broadcast == \E t \in DOMAIN tasks : BroadcastNext(t)

Send == \E t \in DOMAIN tasks, ok \in BOOLEAN : SendReturns(t, ok)

Connect == \E c \in Clients : AddWebsocketClient(c)

Disconnect == \E c \in Clients : RemoveWebsocketClient(c)

NextCoord ==
  \/ Start
  \/ ReloadConfig
  \/ GetStatesReturns
  \/ LoadNext
  \/ ReceiveEvent
  \/ Broadcast
  \/ Send
  \/ Connect
  \/ Disconnect

SpecCoord == InitCoord /\ [][NextCoord]_vars

(***************************************************************************)
(* The coordinator with a second caller of reload_config: the request task *)
(* of another PUT of the configuration, running beside start() and the     *)
(* reload of the first caller.                                             *)
(***************************************************************************)
Loaders == {"load", "reload"}

\* One subscriber is enough for a broadcast to suspend.
ReloadClients == {"c1"}

InitReload ==
  /\ EngineIdle
  /\ NoExtras
  /\ NoLifecycle
  /\ tents = <<>>
  /\ upd = [field |-> None, entity_id |-> None, raised |-> FALSE]
  /\ ws_clients = <<>>
  /\ closed = {}
  /\ tasks = [t \in Tasks \cup Loaders |->
                IF t = "load" THEN TaskAt("new", None) ELSE TaskAt("idle", None)]
  /\ running = None
  /\ events_left = 1
  /\ reloads = 0
  /\ applied = 0

Reload == \E t \in Loaders : ReloadConfigBy(t)

GetStates == \E t \in Loaders : GetStatesReturnsTo(t)

Load == \E t \in Loaders : LoadNextOf(t)

ConnectOne == \E c \in ReloadClients : AddWebsocketClient(c)

DisconnectOne == \E c \in ReloadClients : RemoveWebsocketClient(c)

NextReload ==
  \/ Start
  \/ Reload
  \/ GetStates
  \/ Load
  \/ ReceiveEvent
  \/ Broadcast
  \/ Send
  \/ ConnectOne
  \/ DisconnectOne

SpecReload == InitReload /\ [][NextReload]_vars

(***************************************************************************)
(* main.py: the coordinator from start-up to shutdown, with its periodic   *)
(* loops, one subscriber and one state-change event.                       *)
(***************************************************************************)
\* lifespan's cleanup: `await state_manager.stop()` then
\* `await ha_client.disconnect()`, with no suspension before ws.close().
\* stop() clears _running and cancels the periodic tasks that exist;
\* disconnect() clears connected and cancels the receive task, which takes
\* CancelledError at the await it is suspended in.
Shutdown ==
  /\ ~stopped
  /\ running = None
  /\ stopped' = TRUE
  /\ sm_running' = FALSE
  /\ periodic' = [x \in Loops |->
                    IF periodic[x].pc = "none" THEN periodic[x]
                    ELSE [periodic[x] EXCEPT !.pc = "ended"]]
  /\ tasks' = [tasks EXCEPT !["recv"] = TaskAt("cancelled", None)]
  /\ UNCHANGED <<autoVars, tentVars, ws_clients, closed, running, events_left,
                 reloads, applied>>
  /\ UNCHANGED <<dev_mode, alerts, notify, extraVars, fresh>>

TickLoop == \E x \in Loops, ok \in BOOLEAN : Tick(x, ok)

WakeLoop == \E x \in Loops : Wake(x)

InitLife ==
  /\ EngineIdle
  /\ NoExtras
  /\ tents = <<>>
  /\ upd = [field |-> None, entity_id |-> None, raised |-> FALSE]
  /\ ws_clients = <<>>
  /\ closed = {}
  /\ tasks = [t \in Tasks |-> IF t = "recv" THEN TaskAt("idle", None)
                              ELSE TaskAt("new", None)]
  /\ running = None
  /\ events_left = 1
  /\ reloads = 0
  /\ applied = 0
  /\ sm_running = FALSE
  /\ stopped = FALSE
  /\ dev_mode \in BOOLEAN
  /\ periodic = [x \in Loops |-> LoopAt("none", "none")]
  /\ alerts = [t \in TentIds |-> {}]
  /\ notify = [t \in TentIds |-> TRUE]

NextLife ==
  \/ Start
  \/ GetStatesReturns
  \/ LoadNext
  \/ ReceiveEvent
  \/ Broadcast
  \/ Send
  \/ ConnectOne
  \/ DisconnectOne
  \/ TickLoop
  \/ WakeLoop
  \/ Shutdown

SpecLife == InitLife /\ [][NextLife]_vars

(***************************************************************************)
(* The alert sweep on its own: two tents, their sensors and the two        *)
(* periodic loops of a coordinator whose start() has finished.             *)
(***************************************************************************)
\* The readings an entity of a tent may report: <<value, unit>>.
SweepReadings(field) ==
  IF field = "temperature"
  THEN { <<Num(2200), "C">>, <<Num(3500), "C">>, <<Unavailable, "C">> }
  ELSE { <<Num(5500), "%">>, <<Num(8000), "%">> }

\* _process_state_update of a sensor entity of tent t with no subscriber:
\* update_sensor, and nothing to broadcast to
UpdateSensorIn ==
  \E t \in TentIds, field \in SensorFields :
    \E rd \in SweepReadings(field) :
      LET entity_id == IF field = "temperature" THEN "sensor.a" ELSE "sensor.h"
          res == UpdateSensor(tents[t], field, rd[1], rd[2], entity_id)
      IN /\ tents' = [tents EXCEPT ![t] = res.tent]
         /\ upd' = [field |-> field, entity_id |-> entity_id,
                    raised |-> res.raised]
         /\ UNCHANGED <<autoVars, coordVars, lifeVars, extraVars, fresh>>

InitSweep ==
  /\ EngineIdle
  /\ NoCalls
  /\ rules_file = {}
  /\ entity_to_tent = EntityToTent
  /\ NoCoordinator
  /\ tents = [t \in TentIds |-> NewTentState]
  /\ upd = [field |-> None, entity_id |-> None, raised |-> FALSE]
  /\ sm_running = TRUE
  /\ stopped = FALSE
  /\ dev_mode = FALSE
  /\ periodic = [x \in Loops |-> LoopAt("ready", "none")]
  /\ alerts = [t \in TentIds |-> {}]
  /\ notify \in [TentIds -> BOOLEAN]

NextSweep ==
  \/ UpdateSensorIn
  \/ TickLoop
  \/ WakeLoop

SpecSweep == InitSweep /\ [][NextSweep]_vars

(***************************************************************************)
(* Properties of the state coordinator, checked under SpecCoord.           *)
(***************************************************************************)
\* Task t is in the middle of processing a routed update.
Processing(t) ==
  /\ tasks[t].pc \in {"broadcast", "sending"}
  /\ tasks[t].phase # "final"

\* C9 (as claimed): every routed update that is taken is applied and its
\* broadcast started, and when the broadcast is over every subscriber that
\* was in the list from its start to its end has been sent the snapshot.
C9_AppliedAndBroadcastOnce ==
  [][\A t \in Tasks :
       /\ (applied' = applied + 1 /\ tasks'[t] # tasks[t]) => Processing(t)'
       /\ (Processing(t) /\ ~Processing(t)') =>
             (tasks[t].live \cap Range(ws_clients')) \subseteq tasks[t].sent
    ]_vars

\* C10 (as claimed): the receive loop and the loading task are never both
\* in the middle of processing an update.
C10_OneAtATime == ~(Processing("recv") /\ Processing("load"))

\* The step in which the broadcast of task t ends.
BroadcastEnds(t) ==
  /\ tasks[t].pc = "broadcast"
  /\ tasks'[t].pc \notin {"broadcast", "sending"}

\* C11 (as claimed): when a broadcast in which a send failed ends, no
\* subscriber whose send failed is in ws_clients any more, and every other
\* subscriber that was in the list throughout has been sent the message.
C11_FailedSubscriberPruned ==
  [][\A t \in Tasks :
       (BroadcastEnds(t) /\ tasks[t].disconnected # <<>>) =>
         /\ \A c \in Range(tasks[t].disconnected) : c \notin Range(ws_clients')
         /\ \A c \in (tasks[t].live \cap Range(ws_clients')) :
               c \in tasks[t].sent
    ]_vars

(***************************************************************************)
(* The coordinator under the scheduling of the event loop: a task that can *)
(* run is run, Home Assistant answers get_states, and a send to a live     *)
(* subscriber returns.  Nothing in _broadcast_update bounds the time of a  *)
(* send, so the send to a dead subscriber (DeadClient) need never return.  *)
(***************************************************************************)
DeadClient == "c1"

\* send_text to a subscriber other than the dead one returns
SendToLiveReturns(t) ==
  \E ok \in BOOLEAN : tasks[t].ws # DeadClient /\ SendReturns(t, ok)

\* A step of a task that is ready to run, as opposed to the arrival of an
\* event, of a subscriber or of a call of reload_config.
CoordStep ==
  \/ Start
  \/ GetStatesReturns
  \/ LoadNext
  \/ Broadcast
  \/ \E t \in Tasks : SendToLiveReturns(t)

\* The event loop does not idle while such a step is possible.
CoordFairness == WF_vars(CoordStep)

SpecCoordLive == SpecCoord /\ CoordFairness

\* C12 (as claimed): a receive loop suspended in a send to the dead
\* subscriber eventually gets past it, as it must to send the update to the
\* subscribers that follow and to take the next state-change event.
C12_DeadSubscriberTolerated ==
  (tasks["recv"].pc = "sending" /\ tasks["recv"].ws = DeadClient)
    ~> ~(tasks["recv"].pc = "sending" /\ tasks["recv"].ws = DeadClient)

\* C13 (as claimed): a reload_config that starts with tents never leaves
\* the coordinator without tents.
C13_ReloadKeepsTents ==
  [][(reloads' = reloads + 1 /\ tents # <<>>) => tents' # <<>>]_vars

\* The step in which the reload_config of task t returns.
ReloadReturns(t) ==
  /\ tasks[t].phase \in {"reload", "final"}
  /\ tasks[t].pc # "done"
  /\ tasks'[t].pc = "done"

\* The entities of tent t1 that have a reading in its aggregate.
Reported(tent) ==
  UNION {DOMAIN tent.sensors[f].entities : f \in DOMAIN tent.sensors}

\* C14 (as claimed): when a reload_config returns, every routed entity of
\* the snapshot (sensor.a and sensor.b) has its reading in the aggregate of
\* its tent and the tent has been broadcast once more.
C14_ReloadAppliesSnapshot ==
  [][\A t \in Loaders :
       (ReloadReturns(t) /\ tents' # <<>>) =>
          /\ {"sensor.a", "sensor.b"} \subseteq Reported(tents'["t1"])
          /\ tasks[t].phase = "final"
    ]_vars

(***************************************************************************)
(* Further properties of the automation engine, checked under Spec.        *)
(***************************************************************************)
\* C19 (as claimed): an evaluation of a rule whose action_actuator is not
\* among the tent's actuators issues no call and leaves triggered,
\* last_action and last_action_time as they were.
C19_UnresolvedActuatorNoEffect ==
  [][\A r \in RuleIds :
       (/\ EvalStep /\ ReadingFor(rules[r])
        /\ rules[r].action_actuator \notin DOMAIN actuators)
       => /\ ha_calls' = <<>>
          /\ rule_states'[r].triggered = rule_states[r].triggered
          /\ rule_states'[r].last_action = rule_states[r].last_action
          /\ rule_states'[r].last_action_time = rule_states[r].last_action_time
    ]_vars

\* C20: an evaluation that fires an action of a rule whose actuator is
\* configured issues exactly one call, a turn_on, turn_off or
\* set_percentage of the actuator's entity; when the call fails nothing
\* but triggered has changed, and triggered is what it would be had the
\* call succeeded.  No step issues more than one call.
C20_OneCallNoRetry ==
  [][/\ Len(ha_calls') <= 1
     /\ \A r \in RuleIds :
          LET rule == rules[r]
              st == rule_states[r]
              flipped == [st EXCEPT !.triggered = ~st.triggered]
          IN (/\ EvalStep /\ ReadingFor(rule)
              /\ rule_states'[r].triggered # st.triggered
              /\ ~InsideMinDuration(rule, flipped)
              /\ rule.action_actuator \in DOMAIN actuators)
             => /\ Len(ha_calls') = 1
                /\ ha_calls'[1].entity_id = actuators[rule.action_actuator]
                /\ ha_calls'[1].service \in {"turn_on", "turn_off", "set_percentage"}
                /\ \/ rule_states'[r] =
                        [flipped EXCEPT !.last_action =
                                          IF ha_calls'[1].service = "turn_off"
                                          THEN "off" ELSE "on",
                                        !.last_action_time = Some(now),
                                        !.last_triggered = Some(now)]
                   \/ rule_states'[r] = flipped
    ]_vars

\* C20 witness: the "on" call of a sensor_above rule failed: the call was
\* issued, the rule is triggered and no action is recorded.
C20_Witness ==
  /\ rules["r1"].trigger_type = "sensor_above"
  /\ rules["r1"].action_type = "turn_on"
  /\ reading.op = "evaluate"
  /\ Len(ha_calls) = 1
  /\ rule_states["r1"].triggered
  /\ rule_states["r1"].last_action = None
  /\ rule_states["r1"].last_action_time = Nothing

(***************************************************************************)
(* The functions of state_manager.py called on their own: the initial      *)
(* state draws the arguments of one call, the action makes the call and    *)
(* records its result in calc.                                             *)
(***************************************************************************)
\* The temperatures (hundredths) calculate_vpd is called with, 77.0 being
\* taken for Fahrenheit, and the humidities.
VpdTemps == {2200, 2350, 2400, 2500, 2550, 2600, 2750, 2800, 3000, 3500, 7700}

VpdHumidities == {-500, 0, 100, 4000, 5500, 7000, 8000, 10000, 10010, 15000}

\* -237.3, where the formula divides by zero, called with humidities outside
\* (0, 100] only.
VpdPoleTemps == {-23730}

VpdPoleHumidities == {-500, 15000}

\* The readings calculate_environment_score is called with (None: absent).
ScoreTemps ==
  {Null, Num(1200), Num(1750), Num(1800), Num(2500), Num(2800), Num(2810),
   Num(4000)}

ScoreHumidities ==
  {Null, Num(0), Num(3550), Num(4000), Num(5500), Num(7000), Num(8000)}

ScoreVpds ==
  {Null, Num(30), Num(40), Num(80), Num(100), Num(120), Num(130), Num(160),
   Num(250)}

\* The slot values and toggles the body of _check_alerts is run on.
AlertTemps ==
  {Null, Unavailable, Num(1790), Num(1800), Num(2500), Num(3000), Num(3010),
   Num(3510), Num(3800)}

AlertHumidities == {Null, Num(3990), Num(4000), Num(7000), Num(7010)}

AlertReservoirs ==
  {Null, Unavailable, Num(500), Num(1990), Num(2000), Num(5000)}

\* The schedules and the manual stage infer_growth_stage is called with
\* (None: the key is not there).
PhotoperiodOn == {None, "06:00", "06:01", "6:00", "18:00", "20:00", "0600"}

PhotoperiodOff ==
  {None, "", "00:00", "06:00", "14:00", "18:00", "18:30", "18:31", "22:00", "6pm"}

ManualStages == {None, "", "veg", "flower"}

\* The calls to make: function, arguments, no result yet.
Calls ==
  {[fn |-> "calculate_vpd", args |-> <<temp, humidity>>, result |-> Nothing] :
      temp \in VpdTemps, humidity \in VpdHumidities}
  \cup
  {[fn |-> "calculate_vpd", args |-> <<temp, humidity>>, result |-> Nothing] :
      temp \in VpdPoleTemps, humidity \in VpdPoleHumidities}
  \cup
  {[fn |-> "calculate_environment_score", args |-> <<temp, humidity, vpd>>,
    result |-> Nothing] :
      temp \in ScoreTemps, humidity \in ScoreHumidities, vpd \in ScoreVpds}
  \cup
  {[fn |-> "check_alerts",
    args |-> [temp |-> temp, humidity |-> humidity, leak |-> leak,
              reservoir |-> reservoir, toggles |-> toggles],
    result |-> Nothing] :
      temp \in AlertTemps, humidity \in AlertHumidities, leak \in {"on", "off"},
      reservoir \in AlertReservoirs, toggles \in [AlertToggles -> BOOLEAN]}
  \cup
  {[fn |-> "infer_growth_stage", args |-> <<on_time, off_time, stage>>,
    result |-> Nothing] :
      on_time \in PhotoperiodOn, off_time \in PhotoperiodOff,
      stage \in ManualStages}

VpdCall ==
  /\ calc.fn = "calculate_vpd"
  /\ calc.result = Nothing
  /\ calc' = [calc EXCEPT !.result = Some(CalculateVpd(calc.args[1], calc.args[2]))]
  /\ UNCHANGED <<autoVars, tentVars, coordVars, lifeVars, ha, fresh, rules_file, entity_to_tent>>

ScoreCall ==
  /\ calc.fn = "calculate_environment_score"
  /\ calc.result = Nothing
  /\ calc' = [calc EXCEPT !.result =
                Some(CalculateEnvironmentScore(calc.args[1], calc.args[2],
                                               calc.args[3]))]
  /\ UNCHANGED <<autoVars, tentVars, coordVars, lifeVars, ha, fresh, rules_file, entity_to_tent>>

AlertCall ==
  /\ calc.fn = "check_alerts"
  /\ calc.result = Nothing
  /\ calc' = [calc EXCEPT !.result =
                Some(AlertBody(calc.args.temp, calc.args.humidity, calc.args.leak,
                               calc.args.reservoir, calc.args.toggles))]
  /\ UNCHANGED <<autoVars, tentVars, coordVars, lifeVars, ha, fresh, rules_file, entity_to_tent>>

StageCall ==
  /\ calc.fn = "infer_growth_stage"
  /\ calc.result = Nothing
  /\ calc' = [calc EXCEPT !.result =
                Some(InferGrowthStage(calc.args[1], calc.args[2], calc.args[3]))]
  /\ UNCHANGED <<autoVars, tentVars, coordVars, lifeVars, ha, fresh, rules_file, entity_to_tent>>

InitCalc ==
  /\ EngineIdle
  /\ NoTents
  /\ NoCoordinator
  /\ NoLifecycle
  /\ calc \in Calls
  /\ ha = HAClientNew
  /\ fresh = {}
  /\ rules_file = {}
  /\ entity_to_tent = <<>>

NextCalc ==
  \/ VpdCall
  \/ ScoreCall
  \/ AlertCall
  \/ StageCall

SpecCalc == InitCalc /\ [][NextCalc]_vars

(***************************************************************************)
(* _process_state_update of the temperature entities of one tent, with an  *)
(* automation engine configured.                                           *)
(***************************************************************************)
\* The states sensor.a reports, <<value, unit>>: sensor.b reports no number.
ProcessReadings(entity_id) ==
  IF entity_id = "sensor.a"
  THEN { <<Num(2500), None>>, <<Num(9800), None>>, <<Num(5000), None>>,
         <<Num(5010), None>>, <<Num(7700), "F">>, <<Num(7700), "f">>,
         <<Num(2500), "F">>, <<Num(6000), "C">>, <<Num(7700), "">>,
         <<Num(30000), "K">>, <<Unavailable, "F">>, <<Null, None>> }
  ELSE { <<Unavailable, "C">>, <<Null, None>> }

\* update_sensor, then evaluate_sensor_rules is passed `value` when it is a
\* number (calc.result; None when no evaluation is made)
ProcessSensorCall ==
  \E entity_id \in {"sensor.a", "sensor.b"} :
    \E rd \in ProcessReadings(entity_id) :
      LET res == UpdateSensor(tents["t1"], "temperature", rd[1], rd[2], entity_id)
      IN /\ tents' = [tents EXCEPT !["t1"] = res.tent]
         /\ upd' = [field |-> "temperature", entity_id |-> entity_id,
                    raised |-> res.raised]
         /\ calc' = [fn |-> "process_state_update",
                     args |-> <<entity_id, rd[1], rd[2]>>,
                     result |-> IF IsNum(rd[1]) /\ ~res.raised THEN rd[1] ELSE Null]
         /\ UNCHANGED <<autoVars, coordVars, lifeVars, ha, fresh, rules_file, entity_to_tent>>

InitProc ==
  /\ EngineIdle
  /\ NoCoordinator
  /\ NoLifecycle
  /\ NoCalls
  /\ rules_file = {}
  /\ entity_to_tent = EntityToTent
  /\ tents = [t \in {"t1"} |-> NewTentState]
  /\ upd = [field |-> None, entity_id |-> None, raised |-> FALSE]

NextProc == ProcessSensorCall

SpecProc == InitProc /\ [][NextProc]_vars

(***************************************************************************)
(* Properties of the life cycle and of the periodic loops.                 *)
(***************************************************************************)
\* Loop x performs a tick: it goes from its `while` test into its sleep.
TickStep(x) == periodic[x].pc = "ready" /\ periodic'[x].pc = "sleeping"

\* C15 (as claimed): once stop() has been called neither periodic loop
\* performs a sweep or a history write any more, wherever start() was when
\* stop() was called.  Checked under SpecLife.
C15_NoTickAfterStop ==
  [][stopped => \A x \in Loops : ~TickStep(x)]_vars

\* C16 (as claimed): an event the receive loop is processing when the
\* coordinator is stopped goes on undisturbed, and after the stop no
\* further event is taken.  Checked under SpecLife.
C16_InFlightEventCompletes ==
  [][/\ (~stopped /\ stopped' /\ Processing("recv"))
          => tasks'["recv"] = tasks["recv"]
     /\ stopped => events_left' = events_left
    ]_vars

\* The alerts whose condition the current values of a tent violate: a
\* numeric temperature outside 18..30, a numeric humidity outside 40..70.
OutOfRange(value, lo, hi) == IsNum(value) /\ (value.v < lo \/ value.v > hi)

ViolatedAlerts(tent) ==
  {a \in {Alert("temp_out_of_range", "warning"),
          Alert("humidity_out_of_range", "warning")} :
     \/ /\ a.type = "temp_out_of_range"
        /\ "temperature" \in DOMAIN tent.sensors
        /\ OutOfRange(tent.sensors["temperature"].value, 1800, 3000)
     \/ /\ a.type = "humidity_out_of_range"
        /\ "humidity" \in DOMAIN tent.sensors
        /\ OutOfRange(tent.sensors["humidity"].value, 4000, 7000)}

\* C17 (as claimed): after an alert sweep every tent with notifications
\* enabled holds exactly the alerts its current sensor values violate,
\* whatever the other tents hold.  Checked under SpecSweep.
C17_AlertsMatchValues ==
  [][TickStep("alert") =>
       \A t \in DOMAIN tents :
          notify[t] => alerts'[t] = ViolatedAlerts(tents[t])
    ]_vars

\* The event loop runs a task that is ready and ends a sleep that is over;
\* a task that holds the loop goes on to its next await.
LifeFairness ==
  /\ \A x \in Loops : WF_vars(\E ok \in BOOLEAN : Tick(x, ok))
  /\ \A x \in Loops : WF_vars(Wake(x))
  /\ WF_vars(LoadNext \/ Broadcast)

SpecLifeLive == SpecLife /\ LifeFairness

\* C18: no periodic loop ends while the coordinator is running, and while
\* it is running a loop whose tick raised goes through its sleep to its
\* next tick.  Checked under SpecLifeLive.
C18_TickErrorsSurvived ==
  /\ [](\A x \in Loops : periodic[x].pc = "ended" => ~sm_running)
  /\ \A x \in Loops :
       (periodic[x].pc = "sleeping" /\ periodic[x].last = "error")
          ~> (periodic[x].pc = "ready" \/ ~sm_running)
  /\ \A x \in Loops :
       (periodic[x].pc = "ready" /\ periodic[x].last = "error")
          ~> (periodic[x].pc = "sleeping" \/ ~sm_running)

\* C18 witness: the alert sweep raised, the loop slept and is about to
\* sweep again, the coordinator still running.
C18_Witness ==
  /\ sm_running
  /\ periodic["alert"] = LoopAt("ready", "error")
  /\ periodic["history"].last = "error"

\* C21: a periodic loop ticks only when start() has loaded the
\* configuration, subscribed, fetched the snapshot and applied each of its
\* routed entities (sensor.a and sensor.b); events are taken only once
\* start() has loaded the configuration and subscribed.  Checked under
\* SpecLife.
C21_StartOrder ==
  [][/\ \A x \in Loops :
          TickStep(x) =>
             /\ tasks["load"].pc = "done"
             /\ tasks["load"].phase = "start"
             /\ tents # <<>> =>
                  {"sensor.a", "sensor.b"} \subseteq Reported(tents["t1"])
     /\ events_left' # events_left => tasks["load"].pc # "new"
    ]_vars

\* C21 witness: the alert loop has ticked after a snapshot of two routed
\* entities was applied.
C21_Witness ==
  /\ periodic["alert"].pc = "sleeping"
  /\ tents # <<>>
  /\ {"sensor.a", "sensor.b"} \subseteq Reported(tents["t1"])
  /\ applied >= 2

(***************************************************************************)
(* ha_client.py: commands and their responses.  _send_command registers a  *)
(* future under the new message_id, sends the command and awaits the       *)
(* future for ten seconds; the receive loop reads the socket and, in       *)
(* _handle_message, gives a response to the future registered under its id *)
(* or runs the state callbacks of an event.  With an automation engine     *)
(* configured the callback evaluates the rules, and a rule that fires      *)
(* sends its command from inside the receive loop.  Route handlers are the  *)
(* tasks outside the receive loop that send commands.                      *)
(***************************************************************************)
ResultOf(c) == [type |-> "result", id |-> c]

StateChanged == [type |-> "event", id |-> 0]

\* _send_command up to its await of the future, called by task `who`
SendCommand(who) ==
  LET c == ha.message_id + 1
  IN [ha EXCEPT !.message_id = c,
                !.pending = ha.pending \cup {c},
                !.sent = ha.sent \cup {c},
                !.issuer[c] = who,
                ![who] = [pc |-> "awaiting", id |-> c]]

\* Home Assistant fires a state_changed event.
HaEvent ==
  /\ ha.events < MaxHaEvents
  /\ ha' = [ha EXCEPT !.events = ha.events + 1,
                      !.wire = Append(ha.wire, StateChanged)]
  /\ UNCHANGED <<autoVars, tentVars, coordVars, lifeVars, calc, fresh, rules_file, entity_to_tent>>

\* Home Assistant answers a command.
HaAck ==
  \E c \in ha.sent :
    /\ ha' = [ha EXCEPT !.sent = ha.sent \ {c},
                        !.wire = Append(ha.wire, ResultOf(c))]
    /\ UNCHANGED <<autoVars, tentVars, coordVars, lifeVars, calc, fresh, rules_file, entity_to_tent>>

\* _receive_loop: ws.recv() returns and _handle_message runs.  A response
\* whose id is pending resolves its future, any other is passed over; an
\* event runs the callback, whose rule evaluation either fires (the command
\* is sent and awaited inside the loop) or does not.
ReceiveMessage ==
  /\ ha.recv.pc = "recv"
  /\ ha.wire # <<>>
  /\ LET msg == Head(ha.wire)
         read == [ha EXCEPT !.wire = Tail(ha.wire)]
     IN IF msg.type = "result"
        THEN ha' = IF msg.id \in ha.pending
                   THEN [read EXCEPT !.resolved = ha.resolved \cup {msg.id}]
                   ELSE read
        ELSE \E fires \in BOOLEAN :
               ha' = IF fires /\ ha.message_id < MaxCommands
                     THEN [SendCommand("recv") EXCEPT !.wire = Tail(ha.wire)]
                     ELSE read
  /\ UNCHANGED <<autoVars, tentVars, coordVars, lifeVars, calc, fresh, rules_file, entity_to_tent>>

\* The tasks outside the receive loop that send commands.
ApiTasks == {"api", "api2"}

\* A route handler calls call_service.
ApiCommand ==
  \E who \in ApiTasks :
    /\ ha[who].pc = "idle"
    /\ ha.message_id < MaxCommands
    /\ ha' = SendCommand(who)
    /\ UNCHANGED <<autoVars, tentVars, coordVars, lifeVars, calc, fresh, rules_file, entity_to_tent>>

\* finally: self._pending_responses.pop(self.message_id, None), the id being
\* the one message_id holds now
AfterWait(who, how) ==
  [ha EXCEPT !.pending = ha.pending \ {ha.message_id},
             !.outcome[ha[who].id] = how,
             ![who] = NotWaiting(IF who = "recv" THEN "recv" ELSE "idle")]

\* wait_for returns the result of the future.
WaitReturns(who) ==
  /\ ha[who].pc = "awaiting"
  /\ ha[who].id \in ha.resolved
  /\ ha' = AfterWait(who, "response")
  /\ UNCHANGED <<autoVars, tentVars, coordVars, lifeVars, calc, fresh, rules_file, entity_to_tent>>

\* The receive loop is at recv() with the response of c next but for the
\* messages before it: it resolves the future well within the ten seconds.
Deliverable(c) ==
  /\ ha.recv.pc = "recv"
  /\ c \in ha.pending
  /\ \E j \in DOMAIN ha.wire : ha.wire[j] = ResultOf(c)

\* wait_for gives up after ten seconds: TimeoutError, which _execute_action
\* logs (the receive loop goes on) and a route handler passes on.
WaitTimesOut(who) ==
  /\ ha[who].pc = "awaiting"
  /\ ha[who].id \notin ha.resolved
  /\ ~Deliverable(ha[who].id)
  /\ ha' = AfterWait(who, "timeout")
  /\ UNCHANGED <<autoVars, tentVars, coordVars, lifeVars, calc, fresh, rules_file, entity_to_tent>>

InitCmd ==
  /\ EngineIdle
  /\ NoTents
  /\ NoCoordinator
  /\ NoLifecycle
  /\ NoExtras

NextCmd ==
  \/ HaEvent
  \/ HaAck
  \/ ReceiveMessage
  \/ ApiCommand
  \/ \E who \in {"recv"} \cup ApiTasks : WaitReturns(who)
  \/ \E who \in {"recv"} \cup ApiTasks : WaitTimesOut(who)

SpecCmd == InitCmd /\ [][NextCmd]_vars

(***************************************************************************)
(* automation.py: load_rules, save_rules, add_rule, remove_rule, with the  *)
(* evaluation of the rules that are loaded.                                *)
(***************************************************************************)
ManagedRuleIds == {"r1", "r2"}

\* The rules a client submits: rule r1 of tent t1 with any trigger, rule r2
\* of tent t2 with a sensor trigger.  No reading matches both rules and only
\* r1 can be a schedule rule, so the order of the dict does not matter.
ManagedRules ==
  { c \in RuleConfigs : c.enabled /\ c.action_type = "turn_on" }
  \cup { [c EXCEPT !.id = "r2", !.tent_id = "t2"] :
           c \in { d \in RuleConfigs : /\ d.enabled
                                       /\ d.action_type = "turn_off"
                                       /\ d.trigger_type = "sensor_above" } }

\* The contents a rules file can have: at most one rule per id
RuleFiles ==
  { f \in SUBSET ManagedRules : \A a, b \in f : a.id = b.id => a = b }

\* del d[k] / d.pop(k, None)
Drop(d, k) ==
  IF DOMAIN d \ {k} = {} THEN <<>> ELSE [x \in DOMAIN d \ {k} |-> d[x]]

\* save_rules(): the file is rewritten from the rules in memory; a failure
\* to write is logged and leaves the file as it was
SaveRules(new_rules, saved) ==
  rules_file' = IF saved THEN Range(new_rules) ELSE rules_file

\* load_rules(): every entry read before one fails to validate is stored
\* with a fresh RuleState; the exception ends the loading and is logged.
\* `loaded` is the part of the file that was read.
LoadRules ==
  \E loaded \in SUBSET rules_file :
    /\ rules' = [r \in DOMAIN rules \cup {c.id : c \in loaded} |->
                   IF \E c \in loaded : c.id = r
                   THEN CHOOSE c \in loaded : c.id = r
                   ELSE rules[r]]
    /\ rule_states' = [r \in DOMAIN rule_states \cup {c.id : c \in loaded} |->
                         IF \E c \in loaded : c.id = r THEN RuleState
                         ELSE rule_states[r]]
    /\ reading' = [op |-> "load_rules", tent_id |-> None, sensor_type |-> None,
                   value |-> Cardinality(loaded)]
    /\ UNCHANGED <<actuators, now, sched_wake, ha_calls>>
    /\ UNCHANGED <<tentVars, coordVars, lifeVars, extraVars, fresh>>

\* A slip: add_rule stores the rule and leaves the state to load_rules.
AddRuleWithoutState(rule) ==
  \E saved \in BOOLEAN :
    /\ rules' = Put(rules, rule.id, rule)
    /\ SaveRules(rules', saved)
    /\ reading' = [op |-> "add_rule", tent_id |-> rule.tent_id,
                   sensor_type |-> rule.trigger_sensor, value |-> 0]
    /\ UNCHANGED <<rule_states, actuators, now, sched_wake, ha_calls>>
    /\ UNCHANGED <<tentVars, coordVars, lifeVars, calc, ha, entity_to_tent, fresh>>

\* add_rule(rule): the rule is stored under its id, a RuleState is created
\* if the id has none, the file is saved
AddRule(rule) ==
  \E saved \in BOOLEAN :
    /\ rules' = Put(rules, rule.id, rule)
    /\ rule_states' = IF rule.id \notin DOMAIN rule_states
                      THEN Put(rule_states, rule.id, RuleState)
                      ELSE rule_states
    /\ SaveRules(rules', saved)
    /\ reading' = [op |-> "add_rule", tent_id |-> rule.tent_id,
                   sensor_type |-> rule.trigger_sensor, value |-> 0]
    /\ UNCHANGED <<actuators, now, sched_wake, ha_calls>>
    /\ UNCHANGED <<tentVars, coordVars, lifeVars, calc, ha, entity_to_tent, fresh>>

AddRuleCall == \E rule \in ManagedRules : AddRule(rule)

\* remove_rule(rule_id): nothing for an unknown id; else the rule and its
\* state are deleted and the file is saved
RemoveRule(rule_id) ==
  \E saved \in BOOLEAN :
    /\ reading' = [op |-> "remove_rule", tent_id |-> None, sensor_type |-> None,
                   value |-> 0]
    /\ IF rule_id \in DOMAIN rules
       THEN /\ rules' = Drop(rules, rule_id)
            /\ rule_states' = Drop(rule_states, rule_id)
            /\ SaveRules(rules', saved)
       ELSE UNCHANGED <<rules, rule_states, rules_file>>
    /\ UNCHANGED <<actuators, now, sched_wake, ha_calls>>
    /\ UNCHANGED <<tentVars, coordVars, lifeVars, calc, ha, entity_to_tent, fresh>>

RemoveRuleCall == \E rule_id \in ManagedRuleIds : RemoveRule(rule_id)

\* The calls issued for rule r, none for a rule that was skipped
CallsOf(res, r) == IF r \in DOMAIN res THEN res[r].calls ELSE <<>>

\* evaluate_sensor_rules over the rules that are loaded.  The rules that
\* pass the three `continue`s reach `state = self.rule_states[rule_id]`,
\* which raises KeyError for an id without a state.
EvaluateLoadedRules(tent_id, sensor_type, value) ==
  \E ok \in BOOLEAN :
    LET looked == { r \in DOMAIN rules : /\ rules[r].enabled
                                         /\ rules[r].tent_id = tent_id
                                         /\ rules[r].trigger_sensor = sensor_type }
        raised == ~(looked \subseteq DOMAIN rule_states)
        res == [r \in looked \cap DOMAIN rule_states |->
                  EvaluateRule(rules[r], rule_states[r], tent_id, sensor_type,
                               value, Some(actuators), ok, now)]
    IN /\ rule_states' = IF raised THEN rule_states
                         ELSE [r \in DOMAIN rule_states |->
                                 IF r \in looked THEN res[r].state
                                 ELSE rule_states[r]]
       /\ ha_calls' = IF raised THEN <<>>
                      ELSE CallsOf(res, "r1") \o CallsOf(res, "r2")
       /\ calc' = [fn |-> "evaluate_sensor_rules",
                   args |-> <<tent_id, sensor_type, value>>,
                   result |-> IF raised THEN Some("KeyError") ELSE Nothing]
       /\ reading' = [op |-> "evaluate", tent_id |-> tent_id,
                      sensor_type |-> sensor_type, value |-> value]
       /\ UNCHANGED <<rules, actuators, now, sched_wake>>
       /\ UNCHANGED <<tentVars, coordVars, lifeVars, ha, rules_file,
                      entity_to_tent, fresh>>

EvaluateLoaded ==
  \E tent_id \in TentIds, value \in {255, 295} :
    EvaluateLoadedRules(tent_id, "temperature", value)

\* one iteration of _schedule_loop over the rules that are loaded: the
\* enabled schedule rules reach `state = self.rule_states[rule_id]`
CheckLoadedSchedules ==
  /\ now >= sched_wake
  /\ \E ok \in BOOLEAN :
       LET looked == { r \in DOMAIN rules : /\ rules[r].enabled
                                            /\ rules[r].trigger_type = "schedule" }
           raised == ~(looked \subseteq DOMAIN rule_states)
           res == [r \in looked \cap DOMAIN rule_states |->
                     CheckRuleSchedule(rules[r], rule_states[r], ok, now)]
       IN /\ rule_states' = IF raised THEN rule_states
                            ELSE [r \in DOMAIN rule_states |->
                                    IF r \in looked THEN res[r].state
                                    ELSE rule_states[r]]
          /\ ha_calls' = IF raised THEN <<>>
                         ELSE CallsOf(res, "r1") \o CallsOf(res, "r2")
          /\ calc' = [fn |-> "check_schedules", args |-> <<CurrentTime(now)>>,
                      result |-> IF raised THEN Some("KeyError") ELSE Nothing]
  /\ sched_wake' = now + SchedulePeriod
  /\ reading' = [op |-> "schedule", tent_id |-> None, sensor_type |-> None,
                 value |-> CurrentTime(now)]
  /\ UNCHANGED <<rules, actuators, now>>
  /\ UNCHANGED <<tentVars, coordVars, lifeVars, ha, rules_file, entity_to_tent,
                 fresh>>

\* AutomationEngine.__init__: no rule and no state; a rules file may exist
InitRules ==
  /\ rules = <<>>
  /\ rule_states = <<>>
  /\ actuators = [exhaust_fan |-> "switch.fan"]
  /\ now = 0
  /\ sched_wake = 0
  /\ reading = [op |-> None, tent_id |-> None, sensor_type |-> None, value |-> 0]
  /\ ha_calls = <<>>
  /\ NoTents
  /\ NoCoordinator
  /\ NoLifecycle
  /\ NoCalls
  /\ rules_file \in RuleFiles
  /\ entity_to_tent = <<>>

NextRules ==
  \/ LoadRules
  \/ AddRuleCall
  \/ RemoveRuleCall
  \/ EvaluateLoaded
  \/ CheckLoadedSchedules

SpecRules == InitRules /\ [][NextRules]_vars

(***************************************************************************)
(* The engine next to the coordinator: a StateManager constructed with an  *)
(* automation_engine, whose start() and reload_config run while the rules  *)
(* are evaluated.                                                          *)
(***************************************************************************)
\* One enabled sensor rule is loaded; the coordinator is as constructed.
InitEngineReload ==
  /\ rules \in [RuleIds -> { c \in RuleConfigs : /\ c.enabled
                                                 /\ c.trigger_type = "sensor_above"
                                                 /\ c.action_type # "set_speed" }]
  /\ rule_states = [r \in RuleIds |-> RuleState]
  /\ actuators = [exhaust_fan |-> "switch.fan"]
  /\ now = 0
  /\ sched_wake = 0
  /\ reading = [op |-> None, tent_id |-> None, sensor_type |-> None, value |-> 0]
  /\ ha_calls = <<>>
  /\ NoLifecycle
  /\ NoCalls
  /\ rules_file = {rules[r] : r \in RuleIds}
  /\ entity_to_tent = <<>>
  /\ tents = <<>>
  /\ upd = [field |-> None, entity_id |-> None, raised |-> FALSE]
  /\ ws_clients = <<>>
  /\ closed = {}
  /\ tasks = [t \in Tasks |-> IF t = "recv" THEN TaskAt("idle", None)
                              ELSE TaskAt("new", None)]
  /\ running = None
  /\ events_left = 0
  /\ reloads = 0
  /\ applied = 0

\* _process_state_update's call of evaluate_sensor_rules for a numeric
\* reading of a tent that is loaded, while no other task holds the loop
EvaluateForTent ==
  \E tent_id \in DOMAIN tents, value \in Readings :
    /\ running = None
    /\ EvaluateSensorRules(tent_id, "temperature", value)

NextEngineReload ==
  \/ Start
  \/ ReloadConfig
  \/ GetStatesReturns
  \/ LoadNext
  \/ Broadcast
  \/ EvaluateForTent
  \/ Advance

SpecEngineReload == InitEngineReload /\ [][NextEngineReload]_vars

(***************************************************************************)
(* Properties of update_sensor's temperature normalisation and of the      *)
(* functions called on their own.                                          *)
(***************************************************************************)
\* What the last reported reading is to be stored as: Fahrenheit when the
\* unit has an f in either case, or when there is no unit and the value is
\* above 50.
C22_Fahrenheit(value, unit) ==
  unit \in {"F", "f"} \/ (unit = None /\ value > 5000)

C22_Expected(value, unit) ==
  IF C22_Fahrenheit(value, unit)
  THEN Num(FahrenheitToCelsius1(value))
  ELSE Num(Round1(value, 1))

\* C22: a numeric temperature reading is stored for its entity, and enters
\* the slot's average, converted from Fahrenheit to Celsius exactly when its
\* unit contains "f" in either case or it has no unit and exceeds 50; in every
\* other case it is stored unconverted (25 without a unit stays 25, 98 without
\* a unit is stored as 36.7).
C22_FahrenheitHeuristic ==
  (calc.fn = "process_state_update" /\ calc.args[1] = "sensor.a"
     /\ IsNum(calc.args[2]))
  => LET slot == tents["t1"].sensors["temperature"]
         expected == C22_Expected(calc.args[2].v, calc.args[3])
     IN /\ slot.entities["sensor.a"] = expected
        /\ ~upd.raised => slot.value = expected
        /\ (calc.args[2].v = 2500 /\ calc.args[3] = None) => expected = Num(2500)
        /\ (calc.args[2].v = 9800 /\ calc.args[3] = None) => expected = Num(3670)

C22_Witness ==
  /\ calc.fn = "process_state_update"
  /\ calc.args = <<"sensor.a", Num(9800), None>>
  /\ "sensor.b" \in DOMAIN tents["t1"].sensors["temperature"].entities
  /\ tents["t1"].sensors["temperature"].value = Num(3670)


\* C23: calculate_vpd called with a humidity that is not in (0, 100] returns
\* 0.0 whatever the temperature, and the call does not raise: it is made and
\* has a result also where the formula has none.
C23_VpdZeroOutsideRange ==
  (calc.fn = "calculate_vpd"
     /\ (calc.args[2] <= 0 \/ calc.args[2] > 10000))
  => IF calc.result = Nothing THEN ENABLED VpdCall ELSE calc.result = Some(0)

C23_Witness ==
  /\ calc.fn = "calculate_vpd"
  /\ calc.args = <<-23730, 15000>>
  /\ calc.result = Some(0)


\* The sub-scores of the claim in hundredths of a point: 100 inside the
\* range, less 10 a degree (2 a percent point) outside and never below 0;
\* 100, 75 or 50 for the VPD.
C24_RangeScore(x, lo, hi, per_unit) ==
  LET outside == IF x < lo THEN lo - x ELSE IF x > hi THEN x - hi ELSE 0
      score == 10000 - per_unit * outside
  IN IF score < 0 THEN 0 ELSE score

C24_VpdScore(vpd) ==
  IF vpd >= 80 /\ vpd <= 120 THEN 10000
  ELSE IF vpd >= 40 /\ vpd <= 160 THEN 7500 ELSE 5000

C24_Count(temp, humidity, vpd) ==
  (IF IsNum(temp) THEN 1 ELSE 0) + (IF IsNum(humidity) THEN 1 ELSE 0)
    + (IF IsNum(vpd) THEN 1 ELSE 0)

C24_Sum(temp, humidity, vpd) ==
  (IF IsNum(temp) THEN C24_RangeScore(temp.v, 1800, 2800, 10) ELSE 0)
    + (IF IsNum(humidity) THEN C24_RangeScore(humidity.v, 4000, 7000, 2) ELSE 0)
    + (IF IsNum(vpd) THEN C24_VpdScore(vpd.v) ELSE 0)

C25_Types == {a.type : a \in Get(calc.result).alerts}

\* C25: the alert check raises no temperature alert for a reading equal to
\* the configured minimum or maximum, no humidity alert likewise, no
\* reservoir alert at exactly 20 percent, and no alert of a type whose
\* notification toggle is false, whatever the reading.
C25_InclusiveBoundsAndToggles ==
  (calc.fn = "check_alerts" /\ calc.result # Nothing)
  => /\ calc.args.temp \in {Num(AlertTempMin), Num(AlertTempMax)}
          => "temp_out_of_range" \notin C25_Types
     /\ calc.args.humidity \in {Num(AlertHumidityMin), Num(AlertHumidityMax)}
          => "humidity_out_of_range" \notin C25_Types
     /\ calc.args.reservoir = Num(2000) => "reservoir_low" \notin C25_Types
     /\ ~calc.args.toggles["alert_temp_out_of_range"]
          => "temp_out_of_range" \notin C25_Types
     /\ ~calc.args.toggles["alert_humidity_out_of_range"]
          => "humidity_out_of_range" \notin C25_Types
     /\ ~calc.args.toggles["alert_leak_detected"]
          => "leak_detected" \notin C25_Types
     /\ ~calc.args.toggles["alert_reservoir_low"]
          => "reservoir_low" \notin C25_Types

C25_Witness ==
  /\ calc.fn = "check_alerts"
  /\ calc.args.temp = Num(3000)
  /\ calc.args.humidity = Num(4000)
  /\ calc.args.reservoir = Num(2000)
  /\ calc.args.leak = "on"
  /\ calc.args.toggles =
       [AllEnabled EXCEPT !["alert_leak_detected"] = FALSE]
  /\ calc.result = Some([alerts |-> {}, raised |-> FALSE])


\* C26: an extreme reading escalates: a temperature more than 5 degrees above
\* the configured maximum, and a reservoir level below 10 percent, produce an
\* alert of severity critical rather than warning.
C26_ExtremeReadingsCritical ==
  (calc.fn = "check_alerts" /\ calc.result # Nothing
     /\ ~Get(calc.result).raised)
  => /\ (/\ IsNum(calc.args.temp)
         /\ calc.args.temp.v > AlertTempMax + 500
         /\ calc.args.toggles["alert_temp_out_of_range"])
        => /\ Alert("temp_out_of_range", "critical") \in Get(calc.result).alerts
           /\ Alert("temp_out_of_range", "warning") \notin Get(calc.result).alerts
     /\ (/\ IsNum(calc.args.reservoir)
         /\ calc.args.reservoir.v < 1000
         /\ calc.args.toggles["alert_reservoir_low"])
        => /\ Alert("reservoir_low", "critical") \in Get(calc.result).alerts
           /\ Alert("reservoir_low", "warning") \notin Get(calc.result).alerts


\* C30: the value _process_state_update passes to evaluate_sensor_rules for
\* a sensor field equals the value stored for that field after the update,
\* the Celsius-normalised average of the slot, not the raw reading of the
\* entity that reported.
C30_EvaluatedValueIsStoredValue ==
  (calc.fn = "process_state_update" /\ IsNum(calc.result))
  => calc.result = tents["t1"].sensors["temperature"].value


(***************************************************************************)
(* The reversing action after a suppressed reading, checked under Spec.    *)
(***************************************************************************)
\* The reading of the step is beyond the exit threshold of the rule.
C28_BeyondExit(rule) ==
  \/ rule.trigger_type = "sensor_above"
       /\ reading'.value < rule.trigger_value - rule.hysteresis
  \/ rule.trigger_type = "sensor_below"
       /\ reading'.value > rule.trigger_value + rule.hysteresis

\* C28: after the asserting action of a rule was executed, readings that stay
\* beyond the exit threshold and keep arriving for longer than cooldown and
\* minimum duration make the rule issue the reversing action: an evaluation
\* of such a reading that the minimum duration suppresses leaves the rule in
\* a state in which the same reading, arriving once cooldown and minimum
\* duration have passed, issues the call.
C28_ReversedAfterSuppression ==
  [][\A r \in RuleIds :
       LET rule == rules[r]
           st == rule_states[r]
           late == Get(st.last_action_time) + rule.cooldown
                     + rule.min_on_duration + rule.min_off_duration
       IN (/\ EvalStep /\ ReadingFor(rule)
           /\ C28_BeyondExit(rule)
           /\ st.triggered
           /\ st.last_action = EnterAction(rule)
           /\ rule.action_actuator \in DOMAIN actuators
           /\ ~Within(st, rule.cooldown)
           /\ InsideMinDuration(rule, st))
          => EvaluateRule(rule, rule_states'[r], rule.tent_id, rule.trigger_sensor,
                          reading'.value, Some(actuators), TRUE, late).calls # <<>>
    ]_vars


(***************************************************************************)
(* Live events against the snapshot being applied, checked under SpecCoord.*)
(***************************************************************************)
\* The value tent t1 holds for an entity (None when it holds none).
C29_Held(tt, entity_id) ==
  IF /\ "t1" \in DOMAIN tt
     /\ SlotOf(entity_id) \in DOMAIN tt["t1"].sensors
     /\ entity_id \in DOMAIN tt["t1"].sensors[SlotOf(entity_id)].entities
  THEN tt["t1"].sensors[SlotOf(entity_id)].entities[entity_id]
  ELSE Null

\* C29: while a fetched snapshot is being applied, an entry of it never
\* replaces the value a live event has stored for the same entity since the
\* snapshot was fetched: the aggregate keeps the entity's most recent state.
C29_SnapshotKeepsNewerValue ==
  [][\A t \in Tasks :
       (/\ tasks[t].pc = "next" /\ running = t
        /\ tasks[t].snapshot # <<>>
        /\ tasks'[t].snapshot = Tail(tasks[t].snapshot)
        /\ Head(tasks[t].snapshot)[1] \in fresh)
       => C29_Held(tents', Head(tasks[t].snapshot)[1])
            = C29_Held(tents, Head(tasks[t].snapshot)[1])
    ]_vars


(***************************************************************************)
(* Commands sent from inside the receive loop, checked under SpecCmd.      *)
(***************************************************************************)
\* C27: a command the automation evaluator issues while the receive loop is
\* processing a live event receives its response when Home Assistant
\* acknowledges it: it does not time out while its acknowledgement is on the
\* socket, waiting for the receive loop that is itself waiting for it.
C27_CommandInReceiveLoopAnswered ==
  [][\A c \in CommandIds :
       (/\ ha.issuer[c] = "recv"
        /\ ha.outcome[c] # "timeout"
        /\ ha'.outcome[c] = "timeout")
       => \A j \in DOMAIN ha.wire : ha.wire[j] # ResultOf(c)
    ]_vars


(***************************************************************************)
(* The action a transition issues and the readings that are not the        *)
(* rule's, checked under Spec.                                             *)
(***************************************************************************)
\* The service of the primary action of a rule and of its opposite.
C33_PrimaryService(rule) ==
  CASE rule.action_type = "turn_on" -> "turn_on"
    [] rule.action_type = "set_speed" -> "set_percentage"
    [] rule.action_type = "turn_off" -> "turn_off"

C33_OppositeService(rule) ==
  IF rule.action_type = "turn_off" THEN "turn_on" ELSE "turn_off"

\* C33: an evaluation that takes a rule into the triggered state and issues
\* a call issues the primary action, on (turn_on, or the set-level call of a
\* set_speed rule) unless action_type is turn_off, when it is off; one that
\* takes it out of the triggered state issues the opposite action.
C33_PrimaryActionOnEntering ==
  [][\A r \in RuleIds :
       LET rule == rules[r]
           pre == rule_states[r].triggered
           post == rule_states'[r].triggered
       IN (EvalStep /\ ha_calls' # <<>>)
          => /\ (~pre /\ post) => ha_calls'[1].service = C33_PrimaryService(rule)
             /\ (pre /\ ~post) => ha_calls'[1].service = C33_OppositeService(rule)
    ]_vars

\* C34: a reading for another tent or another sensor field than the rule's,
\* and any reading while the rule is disabled, leaves the rule's runtime
\* state as it was and issues no call for it.
C34_ForeignReadingNoEffect ==
  [][\A r \in RuleIds :
       (/\ EvalStep
        /\ \/ ~rules[r].enabled
           \/ reading'.tent_id # rules[r].tent_id
           \/ reading'.sensor_type # rules[r].trigger_sensor)
       => rule_states'[r] = rule_states[r] /\ ha_calls' = <<>>
    ]_vars

\* C34 witness: a triggered sensor_above rule on temperature, past cooldown
\* and minimum duration, was fed a humidity reading below its exit threshold
\* and did nothing.
C34_Witness ==
  /\ rules["r1"].trigger_type = "sensor_above"
  /\ rules["r1"].enabled
  /\ reading.op = "evaluate"
  /\ reading.tent_id = "t1" /\ reading.sensor_type = "humidity"
  /\ reading.value < rules["r1"].trigger_value - rules["r1"].hysteresis
  /\ rule_states["r1"].triggered
  /\ rule_states["r1"].last_action_time # Nothing
  /\ now - Get(rule_states["r1"].last_action_time) >= rules["r1"].min_on_duration
  /\ now - Get(rule_states["r1"].last_action_time) >= rules["r1"].cooldown
  /\ ha_calls = <<>>


(***************************************************************************)
(* The vpd of a tent across updates, checked under SpecTent.               *)
(***************************************************************************)
\* C37: once a tent's vpd has been computed no later sensor update resets it
\* to null: an update after which the averaged temperature or the averaged
\* humidity is missing leaves vpd at its previous value, and vpd is
\* recomputed, from the two averages, only when both are present.
C37_VpdKeptWhenAverageMissing ==
  [][LET pre == tents["t1"]
         post == tents'["t1"]
         both == IsNum(post.avg_temperature) /\ IsNum(post.avg_humidity)
     IN /\ IsNum(pre.vpd) => IsNum(post.vpd)
        /\ ~both => post.vpd = pre.vpd
        /\ (both /\ ~upd'.raised)
           => post.vpd = Num(CalculateVpd(post.avg_temperature.v,
                                          post.avg_humidity.v))
    ]_vars

\* C37 witness: the temperature average has gone missing after vpd was
\* computed, and vpd is still there.
C37_Witness ==
  /\ IsNum(tents["t1"].vpd)
  /\ ~IsNum(tents["t1"].avg_temperature)
  /\ IsNum(tents["t1"].avg_humidity)
  /\ ~upd.raised


(***************************************************************************)
(* The growth stage inferred from the photoperiod, checked under SpecCalc. *)
(***************************************************************************)
\* The minute of the day of the well-formed times of the model.
C40_MinuteOfDay(time) ==
  CASE time = "00:00" -> 0
    [] time \in {"06:00", "6:00"} -> 360
    [] time = "06:01" -> 361
    [] time = "14:00" -> 840
    [] time = "18:00" -> 1080
    [] time = "18:30" -> 1110
    [] time = "18:31" -> 1111
    [] time = "20:00" -> 1200
    [] time = "22:00" -> 1320

C40_WellFormed ==
  {"00:00", "06:00", "6:00", "06:01", "14:00", "18:00", "18:30", "18:31",
   "20:00", "22:00"}

\* The minutes of light from on to off, an off time at or before the on
\* time being the next day's.
C40_LightMinutes(on_time, off_time) ==
  LET on_minute == C40_MinuteOfDay(on_time)
      off_minute == C40_MinuteOfDay(off_time)
  IN IF off_minute <= on_minute THEN off_minute + 1440 - on_minute
     ELSE off_minute - on_minute

\* C40: infer_growth_stage computes the light-hours from the photoperiod on
\* and off times with wraparound past midnight (an off time at or before the
\* on time counts as the next day), classifies at most 12.5 hours as flower,
\* at least 16 hours as veg and anything between as transition, and a
\* manually configured stage takes precedence over the inferred one.
C40_StageFromPhotoperiod ==
  (calc.fn = "infer_growth_stage" /\ calc.result # Nothing)
  => LET on_time == calc.args[1]
         off_time == calc.args[2]
         manual == calc.args[3]
         res == Get(calc.result)
     IN /\ manual \in {"veg", "flower"}
             => res.stage = manual /\ ~res.inferred
        /\ (manual \notin {"veg", "flower"}
              /\ on_time \in C40_WellFormed /\ off_time \in C40_WellFormed)
             => LET light == C40_LightMinutes(on_time, off_time)
                IN /\ res.inferred
                   /\ IsNum(res.light_hours)
                   /\ 6 * res.light_hours.v >= 10 * light - 30
                   /\ 6 * res.light_hours.v <= 10 * light + 30
                   /\ res.stage = IF 2 * light <= 25 * 60 THEN "flower"
                                  ELSE IF light >= 16 * 60 THEN "veg"
                                  ELSE "transition"

\* C40 witness: lights on at 20:00 and off at 14:00 the next day are 18
\* hours of light, veg.
C40_Witness ==
  /\ calc.fn = "infer_growth_stage"
  /\ calc.args = <<"20:00", "14:00", None>>
  /\ calc.result = Some([stage |-> "veg", inferred |-> TRUE,
                         light_hours |-> Num(1800)])


\* Task `who` is awaiting the response of command c.
C36_Awaits(h, who, c) == h[who].pc = "awaiting" /\ h[who].id = c

\* C36: with several commands in flight each response is delivered to the
\* caller whose command carries its message id: a response read while its
\* command is awaited resolves that command, and a pending-response entry is
\* removed only by the completion of its own command, never by that of
\* another while its caller is still waiting.
C36_ResponsesKeptApart ==
  [][\A c \in CommandIds :
       /\ (/\ ha.recv.pc = "recv" /\ ha.wire # <<>>
           /\ Head(ha.wire) = ResultOf(c)
           /\ ha'.wire = Tail(ha.wire)
           /\ \E who \in ApiTasks : C36_Awaits(ha, who, c))
          => c \in ha'.resolved
       /\ (c \in ha.pending /\ c \notin ha'.pending)
          => \A who \in {"recv"} \cup ApiTasks :
                C36_Awaits(ha, who, c) => ~C36_Awaits(ha', who, c)
    ]_vars


(***************************************************************************)
(* The subscriber list changing under a broadcast, checked under SpecCoord.*)
(***************************************************************************)
\* C35: _broadcast_update does not raise and skips no live subscriber when
\* ws_clients is changed by another task while it is suspended in a send:
\* when it ends, every subscriber it is about to prune is still in the list
\* (list.remove does not raise), and every subscriber that was in the list
\* from its start to its end has been sent to, successfully or not.
C35_ListChangedUnderBroadcast ==
  [][\A t \in Tasks :
       BroadcastEnds(t) =>
         /\ \A c \in Range(tasks[t].disconnected) : c \in Range(ws_clients)
         /\ (tasks[t].live \cap Range(ws_clients))
               \subseteq (tasks[t].sent \cup Range(tasks[t].disconnected))
    ]_vars


\* C38: at every await (no task holds the event loop) every entry of
\* entity_to_tent names a tent present in tents, and the table is the one
\* _load_config derived from the configuration loaded last: complete when
\* that configuration had the tent, empty when it had none, with no entry
\* of an earlier configuration left over, also in the middle of
\* reload_config.
C38_TableMatchesTents ==
  running = None =>
    /\ \A e \in DOMAIN entity_to_tent : entity_to_tent[e][1] \in DOMAIN tents
    /\ entity_to_tent = (IF tents = <<>> THEN <<>> ELSE EntityToTent)

\* C38's case: a reload whose configuration has no tent is waiting for
\* get_states, after events were routed through the earlier table.
C38_Witness ==
  /\ running = None
  /\ \E t \in Tasks : tasks[t].pc = "get_states" /\ tasks[t].phase = "reload"
  /\ applied > 0
  /\ tents = <<>>
  /\ entity_to_tent = <<>>


\* C31: after add_rule is called for a rule id that already exists, with
\* an edited rule, the rule has a fresh runtime state: triggered false, no
\* last action and no last action time.
C31_EditResetsState ==
  [][\A r \in ManagedRuleIds :
       ( /\ reading'.op = "add_rule"
         /\ r \in DOMAIN rules
         /\ r \in DOMAIN rules'
         /\ rules'[r] # rules[r] )
       => rule_states'[r] = RuleState
    ]_vars

\* C39: after any sequence of load_rules, add_rule and remove_rule, with
\* evaluations between them, the rule ids that have a runtime state are the
\* rule ids in rules, and no evaluation and no schedule check has looked up
\* a state that was missing.
C39_StatesMatchRules ==
  /\ DOMAIN rule_states = DOMAIN rules
  /\ calc.fn \in {"evaluate_sensor_rules", "check_schedules"}
       => calc.result = Nothing

\* C39's case: rules were added and evaluated, and one was removed again.
C39_Witness ==
  /\ reading.op = "remove_rule"
  /\ DOMAIN rules = {"r2"}
  /\ DOMAIN rule_states = {"r2"}
  /\ rule_states["r2"] # RuleState
  /\ calc.fn = "evaluate_sensor_rules"

\* C32: when reload_config completes, every automation rule has a fresh
\* runtime state: triggered false, last_action and last_action_time unset.
C32_ReloadResetsRuleStates ==
  [][\A t \in Tasks :
       ( /\ tasks[t].phase = "reload"
         /\ tasks[t].pc # "done"
         /\ tasks'[t].pc = "done" )
       => \A r \in DOMAIN rules : rule_states'[r] = RuleState
    ]_vars

====
